---- MODULE Spec2Model ----
(***************************************************************************)
(* State-machine model of the SnakeGame menu engine (snakegame/menu),      *)
(* its button and click animation (snakegame/animation) and the record /   *)
(* score persistence managers.                                             *)
(*                                                                         *)
(* The specifications share the variables:                                 *)
(*   SpecWidget    one Button and one Click animation, driven by calls     *)
(*   SpecManagers  RecordManager and ScoreManager over their text files    *)
(*   SpecMenu      the Menu run loop with its nested sub-menus             *)
(*   SpecLayout    one menu whose buttons were repositioned                *)
(*   SpecAnimation one Animation moved through its public methods          *)
(*   SpecSwing     one HorizontalSwing driven by animate() and reloads     *)
(*   SpecBackground one Background driven through its public methods       *)
(*   SpecCtor      Menu.__init__, statement by statement                   *)
(*   SpecAnimatedText one AnimatedText driven through its public methods   *)
(*   SpecAnimatedFont one AnimatedFont driven by events and moved          *)
(*   SpecGame      Game.__loop dispatching to the menus, Timer and Loading *)
(*   SpecGameFair  SpecGame with the screens' loops making progress        *)
(***************************************************************************)
EXTENDS Integers, Sequences, FiniteSets, TLC

\* ------------------------------------------------------------------ bounds
MaxCoord == 2       \* rectangle coordinates range over 0..MaxCoord
MaxSize == 3        \* button sizes range over 1..MaxSize
MaxRecord == 3      \* record / score values range over 0..MaxRecord
MaxPos == 2         \* Animation rectangles are placed and moved within 0..MaxPos
MaxSecondary == 2   \* an Animation is bound to at most MaxSecondary followers
MaxLimit == 4       \* swing ranges (5% of the width) range over 0..MaxLimit
MaxImages == 3      \* image lists of a Background hold 0..MaxImages images
MaxFonts == 3       \* an AnimatedFont goes through 1..MaxFonts fonts
MaxCalls == 4       \* at most MaxCalls calls are made on an AnimatedText
MaxSeconds == 3     \* Timer and Loading are given 1..MaxSeconds seconds
MaxBatch == 2       \* a frame of the Timer finds at most MaxBatch events

VARIABLES
    \* Button (menu/button.py)
    btn_coordinate,     \* top-left corner of the top shape, <<x, y>>
    btn_size,           \* size = height of the top shape
    btn_accent,         \* __current_accent_color: "secondary" or "accent"
    btn_result,         \* value returned by the last events() call
    btn_args,           \* arguments of the last events() call
    \* Click (animation/click.py, animation/animation.py)
    click_stage,        \* __click_stage
    click_before,       \* stage at entry of the last animate() call
    click_calls,        \* TRUE once animate() has been called
    click_main,         \* main_rect top-left, <<x, y>>
    click_origin,       \* origin_coordinate
    click_bottom,       \* bottom_shape top-left
    click_secondary,    \* secondary rectangles' top-lefts
    \* RecordManager / ScoreManager (menu/record_manager.py, score_manager.py)
    record_file,        \* integer held by the record file
    record_cache,       \* RecordManager.__record, read once in __init__
    score_file,         \* integer held by the score file
    score_cache,        \* ScoreManager.__score, read once in __init__
    manager_call,       \* the last method called that writes a file
    manager_before,     \* integer that file held before the call
    \* Menu run loop (menu/menu.py) and the concrete menus
    stack,              \* menus whose start() is on the call stack, innermost last
    current_button,     \* Menu.__current_button, per menu
    selected_option,    \* Menu.__selected_option, per menu
    last_selected_option, \* Menu.__last_selected_option, per menu
    is_running,         \* Menu.__is_running, per menu
    selector_y,         \* y of the centre of Menu.__selector, per menu
    selector_x,         \* x of that centre: the button whose bottom shape's
                        \* left centre it is measured from, and the offset
    btn_top,            \* y of the top edge of each button's top shape, per menu
    current_image,      \* Background.__current_image of the menu's background
    difficulty_background, \* index of the background DifficultyMenu shows
    game_state,         \* the shared GameState
    volume,             \* SoundManager.__current_volume
    difficulty,         \* the shared Difficulty
    window_open,        \* FALSE once close_all() has closed the window and
                        \* ended the process (pygame.quit(), sys.exit())
    scroll_plays,       \* play_sound("scroll") calls made by the last tick
    last_return,        \* the last start() that returned: menu, value returned,
                        \* option whose run_another_action called quit()
    main_child,         \* the child menu the user visits from the main menu
    tick_keys,          \* keys held during the last IDLE tick
    tick_keydowns,      \* number of key-down events of the last IDLE tick
    tick_arrow_keydowns, \* how many of them were key-downs of up or down
    select_held,        \* select was held when the last IDLE tick polled it
    root,               \* the root menu this run of the program drives
    \* Animation / HorizontalSwing (animation/animation.py, horizontal_swing.py)
    anim_main,          \* top-left of the main rectangle
    anim_width,         \* width of the main rectangle
    anim_origin,        \* origin coordinate of the animation
    anim_secondary,     \* top-left of every secondary rectangle, in list order
    anim_bound_main,    \* main top-left when the rectangles were bound
    anim_bound_secondary, \* secondary top-lefts when they were bound
    swing_limit,        \* HorizontalSwing.__move_limit_size
    swing_direction,    \* HorizontalSwing.__current_direction
    swing_calls,        \* animate() calls since __init__; -1 once reloaded
    anim_call,          \* the last call made on the Animation, and for
                        \* restore_origin_coordinate where the main rectangle
                        \* was when it was made
    \* Background (menu/background.py)
    bg_images,          \* len(Background.__images)
    bg_current,         \* Background.__current_image
    bg_kind,            \* type of Background.__background: "RECT" or "IMAGE"
    bg_center,          \* centre of the rectangle of Background.__background
    bg_shown,           \* index in __images of the pair __background is; -1
                        \* when it is the colour rectangle or a pair of a
                        \* list that was replaced
    bg_list_center,     \* centre of the rectangles of the pairs in __images
    bg_drawn,           \* what the last draw() rendered
    \* Menu.__init__ (menu/menu.py), statement by statement
    ctor_alignment,     \* the button_alignment argument
    ctor_buttons,       \* options of the buttons create_buttons() returns
    ctor_size,          \* size of these buttons
    ctor_background,    \* top edge and height of the background argument
    ctor_stage,         \* how far __init__ has run
    ctor_created,       \* buttons created so far
    ctor_tops,          \* top edge given to each button by __align_buttons
    ctor_selector_y,    \* y of the centre of the selector
    \* Text, AnimatedText, AnimatedFont (text/*.py)
    txt_content,        \* length of Text.__content
    txt_size,           \* Text.__size
    txt_font,           \* index in constants.FONTS of Text.__font_path
    txt_coordinate,     \* Text.__coordinate
    txt_rect,           \* top-left of Text.__rect, the rectangle it draws
    txt_swing_same,     \* the main rectangle of AnimatedText.__animation is
                        \* the rectangle the text draws
    txt_swing_main,     \* top-left of that main rectangle
    txt_swing_origin,   \* origin coordinate of the animation
    txt_swing_limit,    \* HorizontalSwing.__move_limit_size
    txt_swing_direction, \* HorizontalSwing.__current_direction
    txt_fonts,          \* len(AnimatedFont.__fonts_paths)
    txt_font_index,     \* AnimatedFont.__current_font_path
    txt_call,           \* the last call made on the text: "init", "mutator"
                        \* (a structural mutator) or the kind of event handled
    txt_calls,          \* calls made on the AnimatedText so far
    \* Game, Timer, Loading (game/game.py, menu/timer.py, menu/loading.py)
    gs_state,           \* the game state held by the BasicPiece
    gs_last,            \* the game state before the last change
    gs_pc,              \* where Game.__loop is: "LOOP", or in the blocking
                        \* loop of the "TIMER" or of the "LOADING" screen
    gs_screen,          \* the screen of the last dispatch of Game.__loop
    load_seconds,       \* Loading.__seconds
    load_elapsed,       \* seconds since Loading.__start_time
    tm_seconds,         \* Timer.__seconds
    tm_aux,             \* Timer.__seconds_aux
    tm_content,         \* the number the Timer displays
    tm_events,          \* timer events processed since the last start()
    tm_sounds           \* tick sounds played since the last start()

widgetVars == <<btn_coordinate, btn_size, btn_accent, btn_result, btn_args,
                click_stage, click_before, click_calls, click_main,
                click_origin, click_bottom, click_secondary>>
managerVars == <<record_file, record_cache, score_file, score_cache,
                 manager_call, manager_before>>
menuVars == <<stack, current_button, selected_option, last_selected_option,
              is_running, selector_y, selector_x, btn_top, current_image,
              difficulty_background, game_state, volume, difficulty,
              window_open, scroll_plays, last_return, main_child, tick_keys,
              tick_keydowns, tick_arrow_keydowns, select_held, root>>
motionVars == <<anim_main, anim_width, anim_origin, anim_secondary,
                anim_bound_main, anim_bound_secondary, swing_limit,
                swing_direction, swing_calls, anim_call>>
backgroundVars == <<bg_images, bg_current, bg_kind, bg_center, bg_shown,
                    bg_list_center, bg_drawn>>
ctorVars == <<ctor_alignment, ctor_buttons, ctor_size, ctor_background,
              ctor_stage,
              ctor_created, ctor_tops, ctor_selector_y>>
textVars == <<txt_content, txt_size, txt_font, txt_coordinate, txt_rect,
              txt_swing_same, txt_swing_main, txt_swing_origin,
              txt_swing_limit, txt_swing_direction, txt_fonts,
              txt_font_index, txt_call, txt_calls>>
gameVars == <<gs_state, gs_last, gs_pc, gs_screen, load_seconds,
              load_elapsed, tm_seconds, tm_aux, tm_content, tm_events,
              tm_sounds>>
vars == <<widgetVars, managerVars, menuVars, motionVars, backgroundVars,
          ctorVars, textVars, gameVars>>

\* ------------------------------------------------------------ enumerations
\* enuns/animation_stage.py
AnimationStage == {"NONE", "RUNNING", "FINISHED"}

\* the option carried by the modelled button
BtnOption == "YES"

\* rectangle top-left corners the model draws its rectangles from
Coords == (0..1) \X (0..MaxCoord)

\* =========================================================================
\* Button
\* =========================================================================

IsNextToTheButtonInclusive(coordinate, size, y) ==
    coordinate[2] <= y /\ y <= coordinate[2] + size

\* Button.__is_next_to_the_button: top < y < bottom of the top shape
IsNextToTheButton(coordinate, size, y) ==
    coordinate[2] < y /\ y < coordinate[2] + size

\* Button.__enable_accent_color
EnableAccentColor(wish) == IF wish THEN "accent" ELSE "secondary"

ManageClickIgnoresRow(option, is_on_the_button, is_clicking) ==
    IF is_clicking THEN option ELSE "NONE"

\* Button.__manage_click
ManageClick(option, is_on_the_button, is_clicking) ==
    IF is_on_the_button /\ is_clicking THEN option ELSE "NONE"

\* Button.events(selector_center_y, is_clicking)
ButtonEvents(y, is_clicking) ==
    LET result == IsNextToTheButton(btn_coordinate, btn_size, y)
    IN  /\ btn_accent' = EnableAccentColor(result)
        /\ btn_result' = ManageClick(BtnOption, result, is_clicking)
        /\ btn_args' = [y |-> y, is_clicking |-> is_clicking]
        /\ UNCHANGED <<btn_coordinate, btn_size, click_stage, click_before,
                       click_calls, click_main, click_origin, click_bottom,
                       click_secondary>>
        /\ UNCHANGED <<managerVars, menuVars, motionVars, backgroundVars, ctorVars, textVars, gameVars>>

\* =========================================================================
\* Click animation
\* =========================================================================

MoveSecondaryAlongXOnly(secondary, main, coordinate) ==
    [i \in DOMAIN secondary |->
        <<secondary[i][1] + (coordinate[1] - main[1]), secondary[i][2]>>]

\* Animation.__calculate_step_size and __move_secondary_rectangles
MoveSecondary(secondary, main, coordinate) ==
    [i \in DOMAIN secondary |->
        <<secondary[i][1] + (coordinate[1] - main[1]),
          secondary[i][2] + (coordinate[2] - main[2])>>]

ClickStageAfterDropsRunning(stage, over, clicking) ==
    IF over /\ clicking THEN "RUNNING" ELSE "NONE"

ClickStageAfterStickyFinished(stage, over, clicking) ==
    IF over /\ clicking THEN "RUNNING"
    ELSE IF stage \in {"RUNNING", "FINISHED"} THEN "FINISHED"
    ELSE "NONE"

\* Click.animate: the stage the call leaves
ClickStageAfter(stage, over, clicking) ==
    IF over /\ clicking THEN "RUNNING"
    ELSE IF stage = "RUNNING" THEN "FINISHED"
    ELSE "NONE"

ClickTargetStaysPressed(stage, over, clicking) ==
    IF over /\ clicking THEN click_bottom ELSE click_main

\* Click.animate: the coordinate the call moves the main rectangle to
\* (__start_click snaps onto the bottom shape, __end_click restores the
\* origin, the last branch moves nothing)
ClickTarget(stage, over, clicking) ==
    IF over /\ clicking THEN click_bottom
    ELSE IF stage = "RUNNING" THEN click_origin
    ELSE click_main

\* Click.animate(selector_over_button, is_clicking)
ClickAnimate(over, clicking) ==
    LET target == ClickTarget(click_stage, over, clicking)
    IN  /\ click_before' = click_stage
        /\ click_calls' = TRUE
        /\ click_stage' = ClickStageAfter(click_stage, over, clicking)
        /\ click_main' = target
        /\ click_secondary' = MoveSecondary(click_secondary, click_main, target)
        /\ UNCHANGED <<click_origin, click_bottom>>
        /\ UNCHANGED <<btn_coordinate, btn_size, btn_accent, btn_result, btn_args>>
        /\ UNCHANGED <<managerVars, menuVars, motionVars, backgroundVars, ctorVars, textVars, gameVars>>

\* =========================================================================
\* RecordManager / ScoreManager
\* =========================================================================

Max(a, b) == IF a >= b THEN a ELSE b

\* RecordManager.set_record: compares with the value cached in __init__
SetRecord(new_record) ==
    /\ record_file' = IF new_record > record_cache THEN new_record ELSE record_file
    /\ manager_call' = "set_record"
    /\ manager_before' = record_file
    /\ UNCHANGED <<record_cache, score_file, score_cache>>
    /\ UNCHANGED <<widgetVars, menuVars, motionVars, backgroundVars, ctorVars, textVars, gameVars>>

ResetRecordToCache ==
    /\ record_file' = record_cache
    /\ manager_call' = "reset_record"
    /\ manager_before' = record_file
    /\ UNCHANGED <<record_cache, score_file, score_cache>>
    /\ UNCHANGED <<widgetVars, menuVars, motionVars, backgroundVars, ctorVars, textVars, gameVars>>

\* RecordManager.get_record: the integer read from the record file
GetRecord == record_file

\* ScoreManager.get_score: the integer read from the score file
GetScore == score_file

\* RecordManager.reset_record
ResetRecord ==
    /\ record_file' = 0
    /\ manager_call' = "reset_record"
    /\ manager_before' = record_file
    /\ UNCHANGED <<record_cache, score_file, score_cache>>
    /\ UNCHANGED <<widgetVars, menuVars, motionVars, backgroundVars, ctorVars, textVars, gameVars>>

\* ScoreManager.set_score
SetScore(new_score) ==
    /\ score_file' = IF new_score > score_cache THEN new_score ELSE score_file
    /\ manager_call' = "set_score"
    /\ manager_before' = score_file
    /\ UNCHANGED <<score_cache, record_file, record_cache>>
    /\ UNCHANGED <<widgetVars, menuVars, motionVars, backgroundVars, ctorVars, textVars, gameVars>>

\* ScoreManager.reset_score
ResetScore ==
    /\ score_file' = 0
    /\ manager_call' = "reset_score"
    /\ manager_before' = score_file
    /\ UNCHANGED <<score_cache, record_file, record_cache>>
    /\ UNCHANGED <<widgetVars, menuVars, motionVars, backgroundVars, ctorVars, textVars, gameVars>>

\* =========================================================================
\* Menu engine: tables of the concrete menus
\* =========================================================================

\* every Menu object the program builds; each menu that asks for a
\* confirmation owns its own ConfirmationMenu
Menus == {"main", "options", "record", "credits", "pause", "score",
          "difficulty", "record_confirm", "pause_confirm", "score_confirm"}

ConfirmationMenus == {"record_confirm", "pause_confirm", "score_confirm"}

\* menus whose start() is called from outside the menu tree
Roots == {"main", "pause", "score", "difficulty"}

\* create_buttons() of each concrete menu, in the order it returns them
Buttons(m) ==
    CASE m = "main" -> <<"START", "OPTIONS", "RECORD", "CREDITS", "QUIT">>
      [] m = "options" -> <<"VOLUME_UP", "VOLUME_DOWN", "BACK">>
      [] m = "record" -> <<"DELETE_RECORD", "BACK">>
      [] m = "credits" -> <<"BACK">>
      [] m = "pause" -> <<"CONTINUE", "BACK_TO_MAIN_MENU">>
      [] m = "score" -> <<"DELETE_SCORE", "BACK">>
      [] m = "difficulty" -> <<"EASY", "MEDIUM", "HARD", "BACK">>
      [] OTHER -> <<"YES", "NO">>

\* the ConfirmationMenu a menu owns
ConfirmationOf(m) ==
    CASE m = "record" -> "record_confirm"
      [] m = "pause" -> "pause_confirm"
      [] m = "score" -> "score_confirm"

\* the menu whose run_another_action called start() of m
Caller(m) ==
    CASE m \in {"options", "record", "credits"} -> "main"
      [] m = "record_confirm" -> "record"
      [] m = "pause_confirm" -> "pause"
      [] m = "score_confirm" -> "score"
      [] OTHER -> "none"

\* constants.INITIAL_VOLUME
INITIAL_VOLUME == 5

\* number of images of the menu's background (constants.MAIN_MENU_IMAGES,
\* a list the model shortens)
MainMenuImages == 2
NumImages(m) == IF m = "main" THEN MainMenuImages ELSE 0

\* button_alignment each menu is constructed with
TOP_ALIGNMENT == 1
CENTER_ALIGNMENT == 2
BOTTOM_ALIGNMENT == 3
ButtonAlignment(m) ==
    IF m \in {"main", "difficulty"} THEN CENTER_ALIGNMENT ELSE BOTTOM_ALIGNMENT

\* ------------------------------------------------------------- geometry
WindowDimension == 100      \* constants.WINDOW_DIMENSION, scaled
ButtonSize == 10            \* constants.BUTTON_SIZE, scaled
SelectorHeight == 12        \* height of the selector text, scaled
SelectorWidth == 6          \* width of the selector text, scaled

\* int(percent% of value) for non-negative values
Percent(value, percent) == (value * percent) \div 100

\* Background dimensions[1] and the top edge of its rectangle
BackgroundHeight(m) ==
    IF m \in ConfirmationMenus THEN Percent(WindowDimension, 70)
    ELSE WindowDimension
BackgroundTop(m) ==
    IF m \in ConfirmationMenus
    THEN WindowDimension \div 2 - BackgroundHeight(m) \div 2
    ELSE 0

\* Button.__align_elements: the bottom shape lies below the top shape
BottomShapeOffsetOf(size) == Percent(size, 10)
BottomShapeOffset == BottomShapeOffsetOf(ButtonSize)

\* Menu.__calculate_button_box_height, for n buttons of one size
CalculateButtonBoxHeightOf(size, n, space_between_buttons) ==
    n * size + (n - 1) * space_between_buttons
CalculateButtonBoxHeight(n, space_between_buttons) ==
    CalculateButtonBoxHeightOf(ButtonSize, n, space_between_buttons)

SpaceBetweenButtonsUndivided(size, n) ==
    Percent(CalculateButtonBoxHeightOf(size, n, 0), 10)

\* Menu.__align_buttons: the gap between two buttons
SpaceBetweenButtonsOf(size, n) ==
    Percent(CalculateButtonBoxHeightOf(size, n, 0), 10) \div n
SpaceBetweenButtons(n) == SpaceBetweenButtonsOf(ButtonSize, n)

\* Menu.__align_buttons_on_top / _on_center / _on_bottom: y of the first top
\* for n buttons in a background with the given top edge and height
InitialMidtopYAt(alignment, size, n, background_top, background_height) ==
    LET box == CalculateButtonBoxHeightOf(size, n,
                                          SpaceBetweenButtonsOf(size, n))
        margin == Percent(background_height, 15)
    IN  CASE alignment = TOP_ALIGNMENT -> background_top + margin
          [] alignment = CENTER_ALIGNMENT ->
                (background_top + background_height \div 2) - box \div 2
          [] OTHER ->
                (background_top + background_height) - box - margin

\* the same for a concrete menu
InitialMidtopY(m) ==
    InitialMidtopYAt(ButtonAlignment(m), ButtonSize, Len(Buttons(m)),
                     BackgroundTop(m), BackgroundHeight(m))

\* Menu.__adjust_button_alignment: each button starts below the bottom shape
\* of the previous one
RECURSIVE AdjustButtonAlignmentOf(_, _, _, _)
AdjustButtonAlignmentOf(size, n, initial_y, space) ==
    IF n = 0 THEN <<>>
    ELSE IF n = 1 THEN <<initial_y>>
    ELSE LET before == AdjustButtonAlignmentOf(size, n - 1, initial_y, space)
         IN  Append(before,
                    before[n - 1] + BottomShapeOffsetOf(size) + size + space)
AdjustButtonAlignment(n, initial_y, space) ==
    AdjustButtonAlignmentOf(ButtonSize, n, initial_y, space)

\* Menu.__configure_buttons: the top edges of the menu's buttons
AlignButtons(m) ==
    AdjustButtonAlignment(Len(Buttons(m)), InitialMidtopY(m),
                          SpaceBetweenButtons(Len(Buttons(m))))

\* Menu.__align_buttons for n buttons in the given background
AlignButtonsAt(alignment, size, n, background_top, background_height) ==
    AdjustButtonAlignmentOf(size, n,
        InitialMidtopYAt(alignment, size, n, background_top,
                         background_height),
        SpaceBetweenButtonsOf(size, n))

\* Button row test applied to the button with top edge top
SelectorIsNextToTheButton(top, y) == IsNextToTheButton(<<0, top>>, ButtonSize, y)

\* Menu.__calculate_selector_center: y of the bottom shape's left centre
CalculateSelectorCenterYOf(size, top) ==
    top + BottomShapeOffsetOf(size) + size \div 2
CalculateSelectorCenterY(top) == CalculateSelectorCenterYOf(ButtonSize, top)

\* Menu.__update_selector_position, for buttons of one size
UpdateSelectorPositionOf(size, tops, focus, y) ==
    IF ~IsNextToTheButton(<<0, tops[focus + 1]>>, size, y)
    THEN CalculateSelectorCenterYOf(size, tops[focus + 1])
    ELSE y

UpdateSelectorPositionNever(tops, focus, y) == y

\* Menu.__update_selector_position
UpdateSelectorPosition(tops, focus, y) ==
    UpdateSelectorPositionOf(ButtonSize, tops, focus, y)

\* The x of the selector's centre is kept relative to a button: dx from the
\* x of the left centre of the bottom shape of the button with that index.
\* Before the first set_center it is where AnimatedText was constructed.
SelectorStartX == [button |-> -1, dx |-> 0]

\* Menu.__calculate_selector_center: x
CalculateSelectorCenterX(focus) == [button |-> focus, dx |-> 0 - SelectorWidth]

\* Menu.__update_selector_position: the x of the centre it leaves
UpdateSelectorPositionX(tops, focus, y, x) ==
    IF ~IsNextToTheButton(<<0, tops[focus + 1]>>, ButtonSize, y)
    THEN CalculateSelectorCenterX(focus)
    ELSE x

\* ------------------------------------------------------------ one tick
Keys == {"up", "down", "select"}
\* "KEYDOWN": pygame.KEYDOWN of the up or the down key; "KEYDOWN_OTHER":
\* pygame.KEYDOWN of any other key; "IMAGE": the background's image event;
\* "OTHER": any other event (pygame.KEYUP, the timers of other widgets)
EventTypes == {"KEYDOWN", "KEYDOWN_OTHER", "IMAGE", "OTHER"}
\* event.type == pygame.KEYDOWN
IsKeydown(event) == event \in {"KEYDOWN", "KEYDOWN_OTHER"}
MaxEvents == 1
EventQueues == UNION {[1..k -> EventTypes] : k \in 0..MaxEvents}

\* number of key-down events in the event queue of a tick
CountKeydown(events) ==
    Cardinality({j \in 1..Len(events) : IsKeydown(events[j])})
\* number of key-down events of the up or the down key among them
CountArrowKeydown(events) ==
    Cardinality({j \in 1..Len(events) : events[j] = "KEYDOWN"})

\* outside an IDLE tick no input is consumed
NoTickInput ==
    tick_keys = {} /\ tick_keydowns = 0 /\ tick_arrow_keydowns = 0
ClearTickInput ==
    tick_keys' = {} /\ tick_keydowns' = 0 /\ tick_arrow_keydowns' = 0

PressedUpNoWrap(n, focus, pressed_keys) ==
    IF "up" \in pressed_keys /\ "select" \notin pressed_keys
    THEN [focus |-> IF focus - 1 >= 0 THEN focus - 1 ELSE 0, plays |-> 1]
    ELSE [focus |-> focus, plays |-> 0]

\* Menu.__pressed_up
PressedUp(n, focus, pressed_keys) ==
    IF "up" \in pressed_keys /\ "select" \notin pressed_keys
    THEN [focus |-> IF focus - 1 \in 0..(n - 1) THEN focus - 1 ELSE n - 1,
          plays |-> 1]
    ELSE [focus |-> focus, plays |-> 0]

PressedDownIgnoresSelect(n, focus, pressed_keys) ==
    IF "down" \in pressed_keys
    THEN [focus |-> IF focus + 1 \in 0..(n - 1) THEN focus + 1 ELSE 0,
          plays |-> 1]
    ELSE [focus |-> focus, plays |-> 0]

\* Menu.__pressed_down
PressedDown(n, focus, pressed_keys) ==
    IF "down" \in pressed_keys /\ "select" \notin pressed_keys
    THEN [focus |-> IF focus + 1 \in 0..(n - 1) THEN focus + 1 ELSE 0,
          plays |-> 1]
    ELSE [focus |-> focus, plays |-> 0]

\* Menu.__directional_key_events
DirectionalKeyEvents(n, focus, event, pressed_keys) ==
    IF IsKeydown(event)
    THEN LET up == PressedUp(n, focus, pressed_keys)
             down == PressedDown(n, up.focus, pressed_keys)
         IN  [focus |-> down.focus, plays |-> up.plays + down.plays]
    ELSE [focus |-> focus, plays |-> 0]

\* Background.__change_background / __change_current_image
ChangeBackground(images, image, event) ==
    IF images > 0 /\ event = "IMAGE"
    THEN (IF image < images - 1 THEN image + 1 ELSE 0)
    ELSE image

\* Menu.__events: the loop over the events of the tick
RECURSIVE ProcessEvents(_, _, _, _, _)
ProcessEvents(m, events, pressed_keys, focus, image) ==
    IF events = <<>> THEN [focus |-> focus, image |-> image, plays |-> 0]
    ELSE LET keyed == DirectionalKeyEvents(Len(Buttons(m)), focus,
                                           Head(events), pressed_keys)
             rest == ProcessEvents(m, Tail(events), pressed_keys, keyed.focus,
                                   ChangeBackground(NumImages(m), image,
                                                    Head(events)))
         IN  [focus |-> rest.focus, image |-> rest.image,
              plays |-> keyed.plays + rest.plays]

RECURSIVE ButtonEventsLoopLastWins(_, _, _, _, _)
ButtonEventsLoopLastWins(options, tops, y, pressed_select, index) ==
    IF index > Len(options) THEN "NONE"
    ELSE LET later == ButtonEventsLoopLastWins(options, tops, y,
                                               pressed_select, index + 1)
         IN  IF later # "NONE" THEN later
             ELSE ManageClick(options[index],
                              SelectorIsNextToTheButton(tops[index], y),
                              pressed_select)

\* Menu.__button_events: the while loop from list position index on
RECURSIVE ButtonEventsLoop(_, _, _, _, _)
ButtonEventsLoop(options, tops, y, pressed_select, index) ==
    IF index > Len(options) THEN "NONE"
    ELSE LET option == ManageClick(options[index],
                                   SelectorIsNextToTheButton(tops[index], y),
                                   pressed_select)
         IN  IF option # "NONE" THEN option
             ELSE ButtonEventsLoop(options, tops, y, pressed_select, index + 1)

\* ------------------------------------------------------- the run loop
Top == stack[Len(stack)]

\* the menu at the top of the call stack is about to run a loop iteration
\* with the given selected option; nothing runs once the process has ended
Acting(m, option) ==
    /\ window_open
    /\ stack # <<>>
    /\ Top = m
    /\ is_running[m]
    /\ selected_option[m] = option

RememberOptionDropped(m, option) ==
    /\ last_selected_option' = last_selected_option
    /\ scroll_plays' = 0
    /\ ClearTickInput

\* Menu.__loop line 126, and no scroll sound in an ACTING iteration
RememberOption(m, option) ==
    /\ last_selected_option' = [last_selected_option EXCEPT ![m] = option]
    /\ scroll_plays' = 0
    /\ ClearTickInput

\* Menu.quit
Quit(m) == is_running' = [is_running EXCEPT ![m] = FALSE]

\* Menu.reset_selected_option
ResetSelectedOption(m) ==
    selected_option' = [selected_option EXCEPT ![m] = "NONE"]

\* child.start() called from run_another_action: the child's loop takes over
OpenChild(child) == stack' = Append(stack, child)

\* Menu.start() of the root menu, called by its owner
Start(m) ==
    /\ window_open
    /\ stack = <<>>
    /\ m = root
    /\ stack' = <<m>>
    /\ scroll_plays' = 0
    /\ ClearTickInput
    /\ UNCHANGED <<current_button, selected_option, last_selected_option,
                   is_running, selector_y, selector_x, btn_top, current_image,
                   difficulty_background, game_state, volume, difficulty,
                   window_open, last_return, main_child,
                   root, select_held>>
    /\ UNCHANGED <<widgetVars, managerVars, motionVars, backgroundVars, ctorVars, textVars, gameVars>>

\* Menu.__loop, IDLE iteration: __run_this (events, draw, update), clock tick
IdleTick(events, pressed_keys) ==
    /\ window_open
    /\ stack # <<>>
    /\ is_running[Top]
    /\ selected_option[Top] = "NONE"
    /\ LET m == Top
           done == ProcessEvents(m, events, pressed_keys,
                                 current_button[m], current_image[m])
           option == ButtonEventsLoop(Buttons(m), btn_top[m], selector_y[m],
                                      "select" \in pressed_keys, 1)
       IN  /\ current_button' = [current_button EXCEPT ![m] = done.focus]
           /\ current_image' = [current_image EXCEPT ![m] = done.image]
           /\ selected_option' = [selected_option EXCEPT ![m] = option]
           /\ selector_y' = [selector_y EXCEPT ![m] =
                  UpdateSelectorPosition(btn_top[m], done.focus, selector_y[m])]
           /\ selector_x' = [selector_x EXCEPT ![m] =
                  UpdateSelectorPositionX(btn_top[m], done.focus,
                                          selector_y[m], selector_x[m])]
           /\ scroll_plays' = done.plays
           /\ tick_keys' = pressed_keys
           /\ tick_keydowns' = CountKeydown(events)
           /\ tick_arrow_keydowns' = CountArrowKeydown(events)
           /\ select_held' = ("select" \in pressed_keys)
           /\ difficulty_background' =
                  IF m = "difficulty" THEN done.focus ELSE difficulty_background
    /\ UNCHANGED <<stack, last_selected_option, is_running, btn_top,
                   game_state, volume, difficulty, window_open, last_return, main_child,
                   root>>
    /\ UNCHANGED <<widgetVars, managerVars, motionVars, backgroundVars, ctorVars, textVars, gameVars>>

MainMenuStartStaysOpen ==
    /\ Acting("main", "START")
    /\ RememberOption("main", "START")
    /\ game_state' = "GAME"
    /\ UNCHANGED <<stack, current_button, selected_option, is_running,
                   selector_y, selector_x, btn_top, current_image, difficulty_background,
                   volume, difficulty, window_open, last_return, main_child,
                   root, select_held>>
    /\ UNCHANGED <<widgetVars, managerVars, motionVars, backgroundVars, ctorVars, textVars, gameVars>>

\* MainMenu.run_another_action, START
MainMenuStart ==
    /\ Acting("main", "START")
    /\ RememberOption("main", "START")
    /\ game_state' = "GAME"
    /\ Quit("main")
    /\ UNCHANGED <<stack, current_button, selected_option, selector_y, selector_x, btn_top,
                   current_image, difficulty_background, volume, difficulty,
                   window_open, last_return, main_child,
                   root, select_held>>
    /\ UNCHANGED <<widgetVars, managerVars, motionVars, backgroundVars, ctorVars, textVars, gameVars>>

\* MainMenu.run_another_action, OPTIONS / RECORD / CREDITS: the child's
\* start() is entered
MainMenuOpenChild(option, child) ==
    /\ child = main_child
    /\ Acting("main", option)
    /\ RememberOption("main", option)
    /\ OpenChild(child)
    /\ UNCHANGED <<current_button, selected_option, is_running, selector_y, selector_x,
                   btn_top, current_image, difficulty_background, game_state,
                   volume, difficulty, window_open, last_return, main_child,
                   root, select_held>>
    /\ UNCHANGED <<widgetVars, managerVars, motionVars, backgroundVars, ctorVars, textVars, gameVars>>

\* MainMenu.run_another_action, QUIT: close_all() runs pygame.quit() and
\* sys.exit()
MainMenuQuit ==
    /\ Acting("main", "QUIT")
    /\ RememberOption("main", "QUIT")
    /\ window_open' = FALSE
    /\ UNCHANGED <<stack, current_button, selected_option, is_running,
                   selector_y, selector_x, btn_top, current_image, difficulty_background,
                   game_state, volume, difficulty, last_return, main_child,
                   root, select_held>>
    /\ UNCHANGED <<widgetVars, managerVars, motionVars, backgroundVars, ctorVars, textVars, gameVars>>

VolumeUpWraps(v) == IF v < 10 THEN v + 1 ELSE 0

\* SoundManager.volume_up / volume_down
VolumeUp(v) == IF v < 10 THEN v + 1 ELSE v
VolumeDown(v) == IF 0 < v THEN v - 1 ELSE v

OptionsMenuVolumeQuits(option) ==
    /\ option \in {"VOLUME_UP", "VOLUME_DOWN"}
    /\ Acting("options", option)
    /\ RememberOption("options", option)
    /\ volume' = IF option = "VOLUME_UP" THEN VolumeUp(volume)
                 ELSE VolumeDown(volume)
    /\ Quit("options")
    /\ UNCHANGED <<stack, current_button, selected_option, selector_y, selector_x, btn_top,
                   current_image, difficulty_background, game_state,
                   difficulty, window_open, last_return, main_child,
                   root, select_held>>
    /\ UNCHANGED <<widgetVars, managerVars, motionVars, backgroundVars, ctorVars, textVars, gameVars>>

\* OptionsMenu.run_another_action, VOLUME_UP / VOLUME_DOWN
OptionsMenuVolume(option) ==
    /\ option \in {"VOLUME_UP", "VOLUME_DOWN"}
    /\ Acting("options", option)
    /\ RememberOption("options", option)
    /\ volume' = IF option = "VOLUME_UP" THEN VolumeUp(volume)
                 ELSE VolumeDown(volume)
    /\ ResetSelectedOption("options")
    /\ UNCHANGED <<stack, current_button, is_running, selector_y, selector_x, btn_top,
                   current_image, difficulty_background, game_state,
                   difficulty, window_open, last_return, main_child,
                   root, select_held>>
    /\ UNCHANGED <<widgetVars, managerVars, motionVars, backgroundVars, ctorVars, textVars, gameVars>>

\* run_another_action of OptionsMenu, CreditsMenu, RecordMenu and ScoreMenu
\* on BACK, and of ConfirmationMenu on YES / NO: quit()
PlainQuit(m, option) ==
    /\ \/ m \in {"options", "credits", "record", "score"} /\ option = "BACK"
       \/ m \in ConfirmationMenus /\ option \in {"YES", "NO"}
    /\ Acting(m, option)
    /\ RememberOption(m, option)
    /\ Quit(m)
    /\ UNCHANGED <<stack, current_button, selected_option, selector_y, selector_x, btn_top,
                   current_image, difficulty_background, game_state, volume,
                   difficulty, window_open, last_return, main_child,
                   root, select_held>>
    /\ UNCHANGED <<widgetVars, managerVars, motionVars, backgroundVars, ctorVars, textVars, gameVars>>

PauseMenuContinueKeepsState ==
    /\ Acting("pause", "CONTINUE")
    /\ RememberOption("pause", "CONTINUE")
    /\ Quit("pause")
    /\ UNCHANGED <<stack, current_button, selected_option, selector_y, selector_x, btn_top,
                   current_image, difficulty_background, game_state, volume,
                   difficulty, window_open, last_return, main_child,
                   root, select_held>>
    /\ UNCHANGED <<widgetVars, managerVars, motionVars, backgroundVars, ctorVars, textVars, gameVars>>

\* PauseMenu.run_another_action, CONTINUE
PauseMenuContinue ==
    /\ Acting("pause", "CONTINUE")
    /\ RememberOption("pause", "CONTINUE")
    /\ game_state' = "TIMER"
    /\ Quit("pause")
    /\ UNCHANGED <<stack, current_button, selected_option, selector_y, selector_x, btn_top,
                   current_image, difficulty_background, volume, difficulty,
                   window_open, last_return, main_child,
                   root, select_held>>
    /\ UNCHANGED <<widgetVars, managerVars, motionVars, backgroundVars, ctorVars, textVars, gameVars>>

\* PauseMenu BACK_TO_MAIN_MENU and RecordMenu DELETE_RECORD: the
\* confirmation menu's start() is entered
OpenConfirmation(m, option) ==
    /\ \/ m = "pause" /\ option = "BACK_TO_MAIN_MENU"
       \/ m = "record" /\ option = "DELETE_RECORD"
    /\ Acting(m, option)
    /\ RememberOption(m, option)
    /\ OpenChild(ConfirmationOf(m))
    /\ UNCHANGED <<current_button, selected_option, is_running, selector_y, selector_x,
                   btn_top, current_image, difficulty_background, game_state,
                   volume, difficulty, window_open, last_return, main_child,
                   root, select_held>>
    /\ UNCHANGED <<widgetVars, managerVars, motionVars, backgroundVars, ctorVars, textVars, gameVars>>

ScoreMenuDeleteKeepsSelection ==
    /\ Acting("score", "DELETE_SCORE")
    /\ RememberOption("score", "DELETE_SCORE")
    /\ IF score_file > 0
       THEN /\ OpenChild("score_confirm")
            /\ UNCHANGED selected_option
       ELSE UNCHANGED <<stack, selected_option>>
    /\ UNCHANGED <<current_button, is_running, selector_y, selector_x, btn_top,
                   current_image, difficulty_background, game_state, volume,
                   difficulty, window_open, last_return, main_child,
                   root, select_held>>
    /\ UNCHANGED <<widgetVars, managerVars, motionVars, backgroundVars,
                   ctorVars, textVars, gameVars>>

\* ScoreMenu.run_another_action, DELETE_SCORE: the confirmation is asked
\* only while a positive score is stored
ScoreMenuDelete ==
    /\ Acting("score", "DELETE_SCORE")
    /\ RememberOption("score", "DELETE_SCORE")
    /\ IF score_file > 0
       THEN /\ OpenChild("score_confirm")
            /\ UNCHANGED selected_option
       ELSE /\ ResetSelectedOption("score")
            /\ UNCHANGED stack
    /\ UNCHANGED <<current_button, is_running, selector_y, selector_x, btn_top,
                   current_image, difficulty_background, game_state, volume,
                   difficulty, window_open, last_return, main_child,
                   root, select_held>>
    /\ UNCHANGED <<widgetVars, managerVars, motionVars, backgroundVars, ctorVars, textVars, gameVars>>

DifficultyMenuActionBackClears(option) ==
    /\ option \in {"EASY", "MEDIUM", "HARD", "BACK"}
    /\ Acting("difficulty", option)
    /\ RememberOption("difficulty", option)
    /\ difficulty' = IF option = "BACK" THEN "NONE" ELSE option
    /\ Quit("difficulty")
    /\ UNCHANGED <<stack, current_button, selected_option, selector_y, selector_x, btn_top,
                   current_image, difficulty_background, game_state, volume,
                   window_open, last_return, main_child,
                   root, select_held>>
    /\ UNCHANGED <<widgetVars, managerVars, motionVars, backgroundVars, ctorVars, textVars, gameVars>>

\* DifficultyMenu.run_another_action
DifficultyMenuAction(option) ==
    /\ option \in {"EASY", "MEDIUM", "HARD", "BACK"}
    /\ Acting("difficulty", option)
    /\ RememberOption("difficulty", option)
    /\ difficulty' = IF option = "BACK" THEN difficulty ELSE option
    /\ Quit("difficulty")
    /\ UNCHANGED <<stack, current_button, selected_option, selector_y, selector_x, btn_top,
                   current_image, difficulty_background, game_state, volume,
                   window_open, last_return, main_child,
                   root, select_held>>
    /\ UNCHANGED <<widgetVars, managerVars, motionVars, backgroundVars, ctorVars, textVars, gameVars>>

CallerQuitsOnAnyAnswer(caller, value) == caller = "pause"

\* PauseMenu.__confirm_option: quit() after a YES
CallerQuits(caller, value) == caller = "pause" /\ value = "YES"

CallerResetsNotMain(caller, value) ==
    \/ caller \in {"record", "score"}
    \/ caller = "pause" /\ value # "YES"

CallerResetsOnlyMain(caller, value) ==
    \/ caller = "main"
    \/ caller = "pause" /\ value # "YES"

\* reset_selected_option() after the child returned: MainMenu lines 96/99/102,
\* RecordMenu / ScoreMenu __confirm_option, PauseMenu.__confirm_option else
CallerResets(caller, value) ==
    \/ caller \in {"main", "record", "score"}
    \/ caller = "pause" /\ value # "YES"

ResetStateKeepsFocus(m) ==
    /\ current_button' = current_button
    /\ current_image' = [current_image EXCEPT ![m] = 0]

\* Menu.__reset_state, lines 412-413: focus index and background image loop
\* (lines 414-415, selected option and running flag, are written in LoopExit
\* together with what the caller does to its own fields)
ResetState(m) ==
    /\ current_button' = [current_button EXCEPT ![m] = 0]
    /\ current_image' = [current_image EXCEPT ![m] = 0]

\* Menu.__loop exit: __reset_state, start() returns __last_selected_option and
\* the caller's run_another_action carries on after the call
\* (MainMenu lines 95/98/101, PauseMenu / RecordMenu / ScoreMenu
\* __confirm_option)
LoopExit ==
    /\ window_open
    /\ stack # <<>>
    /\ ~is_running[Top]
    /\ LET m == Top
           value == last_selected_option[m]
           caller == Caller(m)
       IN  /\ stack' = SubSeq(stack, 1, Len(stack) - 1)
           /\ ResetState(m)
           /\ last_return' = [menu |-> m, value |-> value,
                               quit_option |-> selected_option[m]]
           /\ selected_option' =
                 [x \in Menus |->
                     IF x = m THEN "NONE"
                     ELSE IF x = caller /\ CallerResets(caller, value) THEN "NONE"
                     ELSE selected_option[x]]
           /\ is_running' =
                 [x \in Menus |->
                     IF x = m THEN TRUE
                     ELSE IF x = caller /\ CallerQuits(caller, value) THEN FALSE
                     ELSE is_running[x]]
           /\ game_state' =
                 IF caller = "pause" /\ value = "YES" THEN "LOADING"
                 ELSE game_state
           /\ record_file' =
                 IF caller = "record" /\ value = "YES" THEN 0 ELSE record_file
           /\ score_file' =
                 IF caller = "score" /\ value = "YES" THEN 0 ELSE score_file
           /\ manager_call' =
                 IF caller = "record" /\ value = "YES" THEN "reset_record"
                 ELSE IF caller = "score" /\ value = "YES" THEN "reset_score"
                 ELSE manager_call
           /\ manager_before' =
                 IF caller = "record" /\ value = "YES" THEN record_file
                 ELSE IF caller = "score" /\ value = "YES" THEN score_file
                 ELSE manager_before
    /\ scroll_plays' = 0
    /\ ClearTickInput
    /\ UNCHANGED <<last_selected_option, selector_y, selector_x, btn_top,
                   difficulty_background, volume, difficulty, window_open,
                   main_child,
                   root, select_held>>
    /\ UNCHANGED <<widgetVars, record_cache, score_cache, motionVars, backgroundVars, ctorVars, textVars, gameVars>>

\* =========================================================================
\* Initial states and specifications
\* =========================================================================

\* =========================================================================
\* Animation and HorizontalSwing
\* =========================================================================

\* positions a rectangle is placed at or moved to
AnimCoords == (0..MaxPos) \X (0..MaxPos)

\* lists of secondary rectangles an Animation is bound to
SecondaryLists ==
    UNION {[1..n -> {<<0, 0>>, <<1, MaxPos>>}] : n \in 0..MaxSecondary}

\* widths of the main rectangle: the smallest and the largest width of every
\* swing range 0..MaxLimit
SwingWidths == {20 * l + r : l \in 0..MaxLimit, r \in {0, 19}}

\* widths of the main rectangle of an Animation that is only moved
AnimWidths == {0, 20 * MaxLimit + 19}

\* HorizontalSwing.STEP_SIZE
STEP_SIZE == 2

\* HorizontalSwing.__calculate_the_size_of_the_move: int(width * 0.05)
CalculateTheSizeOfTheMove(width) == (width * 5) \div 100

\* Animation.set_current_coordinate: the main rectangle is put at the
\* coordinate and every secondary rectangle follows by the same step
MoveTo(coordinate) ==
    /\ anim_main' = coordinate
    /\ anim_secondary' = MoveSecondary(anim_secondary, anim_main, coordinate)

\* a call on the Animation other than restore_origin_coordinate
AnimCalled(name) == [name |-> name, from |-> <<0, 0>>]

\* Animation.set_current_coordinate(coordinate)
SetCurrentCoordinate(coordinate) ==
    /\ MoveTo(coordinate)
    /\ anim_call' = AnimCalled("move")
    /\ UNCHANGED <<anim_width, anim_origin, anim_bound_main,
                   anim_bound_secondary, swing_limit, swing_direction,
                   swing_calls>>
    /\ UNCHANGED <<widgetVars, managerVars, menuVars, backgroundVars,
                   ctorVars, textVars, gameVars>>

\* Animation.set_current_coordinate_x(x)
SetCurrentCoordinateX(x) ==
    /\ MoveTo(<<x, anim_main[2]>>)
    /\ anim_call' = AnimCalled("move")
    /\ UNCHANGED <<anim_width, anim_origin, anim_bound_main,
                   anim_bound_secondary, swing_limit, swing_direction,
                   swing_calls>>
    /\ UNCHANGED <<widgetVars, managerVars, menuVars, backgroundVars,
                   ctorVars, textVars, gameVars>>

\* Animation.set_current_coordinate_y(y)
SetCurrentCoordinateY(y) ==
    /\ MoveTo(<<anim_main[1], y>>)
    /\ anim_call' = AnimCalled("move")
    /\ UNCHANGED <<anim_width, anim_origin, anim_bound_main,
                   anim_bound_secondary, swing_limit, swing_direction,
                   swing_calls>>
    /\ UNCHANGED <<widgetVars, managerVars, menuVars, backgroundVars,
                   ctorVars, textVars, gameVars>>

\* Animation.restore_origin_coordinate
RestoreOriginCoordinate ==
    /\ MoveTo(anim_origin)
    /\ anim_call' = [name |-> "restore", from |-> anim_main]
    /\ UNCHANGED <<anim_width, anim_origin, anim_bound_main,
                   anim_bound_secondary, swing_limit, swing_direction,
                   swing_calls>>
    /\ UNCHANGED <<widgetVars, managerVars, menuVars, backgroundVars,
                   ctorVars, textVars, gameVars>>

ReloadAnimationKeepsOrigin(coordinate, width, secondary) ==
    /\ anim_main' = coordinate
    /\ anim_width' = width
    /\ anim_secondary' = secondary
    /\ anim_bound_main' = coordinate
    /\ anim_bound_secondary' = secondary
    /\ swing_limit' = CalculateTheSizeOfTheMove(width)
    /\ swing_calls' = -1
    /\ anim_call' = AnimCalled("reload")
    /\ UNCHANGED <<anim_origin, swing_direction>>
    /\ UNCHANGED <<widgetVars, managerVars, menuVars, backgroundVars,
                   ctorVars, textVars, gameVars>>

\* HorizontalSwing.reload_animation(main_rect, secondary_rectangles): the new
\* rectangles are bound where they are, the origin is the new main
\* rectangle's top-left and the swing range is recomputed; the direction is
\* kept
ReloadAnimation(coordinate, width, secondary) ==
    /\ anim_main' = coordinate
    /\ anim_width' = width
    /\ anim_secondary' = secondary
    /\ anim_origin' = coordinate
    /\ anim_bound_main' = coordinate
    /\ anim_bound_secondary' = secondary
    /\ swing_limit' = CalculateTheSizeOfTheMove(width)
    /\ swing_calls' = -1
    /\ anim_call' = AnimCalled("reload")
    /\ UNCHANGED swing_direction
    /\ UNCHANGED <<widgetVars, managerVars, menuVars, backgroundVars,
                   ctorVars, textVars, gameVars>>

\* the animate() calls counted since __init__: counted up to one past the
\* longest swing period, not counted after a reload
CountCall(calls) ==
    IF calls < 0 \/ calls > 2 * MaxLimit THEN calls ELSE calls + 1

\* HorizontalSwing.__go_left
GoLeft(current_x, origin_x) ==
    IF current_x > origin_x - swing_limit
    THEN /\ MoveTo(<<current_x - STEP_SIZE, anim_main[2]>>)
         /\ UNCHANGED swing_direction
    ELSE /\ swing_direction' = "RIGHT"
         /\ UNCHANGED <<anim_main, anim_secondary>>

\* HorizontalSwing.__go_right
GoRight(current_x, origin_x) ==
    IF current_x < origin_x + swing_limit
    THEN /\ MoveTo(<<current_x + STEP_SIZE, anim_main[2]>>)
         /\ UNCHANGED swing_direction
    ELSE /\ swing_direction' = "LEFT"
         /\ UNCHANGED <<anim_main, anim_secondary>>

\* HorizontalSwing.animate
SwingAnimate ==
    /\ IF swing_direction = "LEFT"
       THEN GoLeft(anim_main[1], anim_origin[1])
       ELSE GoRight(anim_main[1], anim_origin[1])
    /\ swing_calls' = CountCall(swing_calls)
    /\ anim_call' = AnimCalled("animate")
    /\ UNCHANGED <<anim_width, anim_origin, anim_bound_main,
                   anim_bound_secondary, swing_limit>>
    /\ UNCHANGED <<widgetVars, managerVars, menuVars, backgroundVars,
                   ctorVars, textVars, gameVars>>

\* HorizontalSwing(main_rectangle, secondary_rectangles)
SwingConstructed ==
    /\ anim_main \in AnimCoords
    /\ anim_width \in SwingWidths
    /\ anim_origin = anim_main
    /\ anim_secondary \in SecondaryLists
    /\ anim_bound_main = anim_main
    /\ anim_bound_secondary = anim_secondary
    /\ swing_limit = CalculateTheSizeOfTheMove(anim_width)
    /\ swing_direction = "LEFT"
    /\ swing_calls = 0
    /\ anim_call = AnimCalled("init")

MotionIdle ==
    /\ anim_main = <<0, 0>>
    /\ anim_width = 0
    /\ anim_origin = <<0, 0>>
    /\ anim_secondary = <<>>
    /\ anim_bound_main = <<0, 0>>
    /\ anim_bound_secondary = <<>>
    /\ swing_limit = 0
    /\ swing_direction = "LEFT"
    /\ swing_calls = 0
    /\ anim_call = AnimCalled("init")

\* =========================================================================
\* Background
\* =========================================================================

\* centres a background is moved to
BgCenters == (0..MaxPos) \X (0..MaxPos)

\* centre of Rect((0, 0), dimensions) and of image.get_rect(), for the
\* dimensions (2, 2) every Background of the model is built with
BgHome == <<1, 1>>

\* Background.__configure_background: the kind of value it returns, "RAISE"
\* when __images[__current_image] is out of range (IndexError)
ConfigureBackground(images, current) ==
    IF images > 0
    THEN IF current < images THEN "IMAGE" ELSE "RAISE"
    ELSE "RECT"

\* Background.__change_current_image
ChangeCurrentImage(images, current) ==
    IF current < images - 1 THEN current + 1 ELSE 0

\* Background.events(event): the title animation leaves the background
\* alone; __change_background advances the image on the image event
BackgroundEvents(is_image_event) ==
    /\ IF bg_kind # "RECT" /\ is_image_event
       THEN /\ bg_current' = ChangeCurrentImage(bg_images, bg_current)
            /\ bg_shown' = bg_current'
            /\ bg_center' = bg_list_center
       ELSE UNCHANGED <<bg_current, bg_shown, bg_center>>
    /\ UNCHANGED <<bg_images, bg_kind, bg_list_center, bg_drawn>>
    /\ UNCHANGED <<widgetVars, managerVars, menuVars, motionVars, ctorVars, textVars, gameVars>>

\* Background.draw / __draw_background: the colour rectangle is drawn when
\* __background is a Rect, the image is blitted otherwise
BackgroundDraw ==
    /\ bg_drawn' = IF bg_kind = "RECT" THEN {"COLOUR"} ELSE {"IMAGE"}
    /\ UNCHANGED <<bg_images, bg_current, bg_kind, bg_center, bg_shown,
                   bg_list_center>>
    /\ UNCHANGED <<widgetVars, managerVars, menuVars, motionVars, ctorVars, textVars, gameVars>>

\* Background.set_center: the colour rectangle is moved, or the rectangle of
\* every pair in __images
BackgroundSetCenter(center) ==
    /\ IF bg_kind = "RECT"
       THEN /\ bg_center' = center
            /\ UNCHANGED bg_list_center
       ELSE /\ bg_list_center' = center
            /\ bg_center' = IF bg_shown >= 0 THEN center ELSE bg_center
    /\ UNCHANGED <<bg_images, bg_current, bg_kind, bg_shown, bg_drawn>>
    /\ UNCHANGED <<widgetVars, managerVars, menuVars, motionVars, ctorVars, textVars, gameVars>>

\* what the assignment __background = __configure_background() leaves: the
\* old value when the call raises
Configured(images, current, list_center) ==
    LET kind == ConfigureBackground(images, current)
    IN  /\ bg_kind' = IF kind = "RAISE" THEN bg_kind ELSE kind
        /\ bg_shown' = IF kind = "IMAGE" THEN current ELSE -1
        /\ bg_center' = CASE kind = "IMAGE" -> list_center
                          [] kind = "RECT" -> BgHome
                          [] OTHER -> bg_center

\* Background.change_image_list(images): a list of the given length whose
\* rectangles have the given centre
ChangeImageList(images, center) ==
    /\ bg_images' = images
    /\ bg_list_center' = center
    /\ Configured(images, bg_current, center)
    /\ UNCHANGED <<bg_current, bg_drawn>>
    /\ UNCHANGED <<widgetVars, managerVars, menuVars, motionVars, ctorVars, textVars, gameVars>>

\* Background.reset_image_loop
ResetImageLoop ==
    /\ bg_current' = 0
    /\ Configured(bg_images, 0, bg_list_center)
    /\ UNCHANGED <<bg_images, bg_list_center, bg_drawn>>
    /\ UNCHANGED <<widgetVars, managerVars, menuVars, motionVars, ctorVars, textVars, gameVars>>

\* Background(title, alignment, dimensions, color, image_paths)
BackgroundConstructed ==
    /\ bg_images \in 0..MaxImages
    /\ bg_current = 0
    /\ bg_kind = ConfigureBackground(bg_images, 0)
    /\ bg_center = BgHome
    /\ bg_shown = (IF bg_images > 0 THEN 0 ELSE -1)
    /\ bg_list_center = BgHome
    /\ bg_drawn = {}

BackgroundIdle ==
    /\ bg_images = 0
    /\ bg_current = 0
    /\ bg_kind = "RECT"
    /\ bg_center = BgHome
    /\ bg_shown = -1
    /\ bg_list_center = BgHome
    /\ bg_drawn = {}

\* =========================================================================
\* Menu.__init__, statement by statement
\* =========================================================================

\* button_alignment arguments a menu is constructed with
CtorAlignments == 0..(BOTTOM_ALIGNMENT + 1)

\* lists create_buttons() returns
CtorButtonLists == {Buttons(m) : m \in Menus}

\* sizes of the buttons create_buttons() makes
CtorButtonSizes == {9, ButtonSize, 26}

\* top edge and height of the backgrounds a menu is constructed in
CtorBackgrounds == {<<0, 100>>, <<15, 70>>, <<0, 300>>}

CheckButtonAlignmentAcceptsAll(button_alignment) == TRUE

\* Menu.__check_button_alignment: FALSE when it raises ValueError
CheckButtonAlignment(button_alignment) ==
    button_alignment \in {TOP_ALIGNMENT, CENTER_ALIGNMENT, BOTTOM_ALIGNMENT}

\* Menu.__init__ line 100: the alignment is checked first
CtorCheckAlignment ==
    /\ ctor_stage = "CALLED"
    /\ ctor_stage' = IF CheckButtonAlignment(ctor_alignment) THEN "CHECKED"
                     ELSE "RAISED"
    /\ UNCHANGED <<ctor_alignment, ctor_buttons, ctor_size, ctor_background,
                   ctor_created, ctor_tops, ctor_selector_y>>
    /\ UNCHANGED <<widgetVars, managerVars, menuVars, motionVars,
                   backgroundVars, textVars, gameVars>>

\* Menu.__configure_buttons, first statement: create_buttons()
CtorCreateButtons ==
    /\ ctor_stage = "CHECKED"
    /\ ctor_stage' = "CREATED"
    /\ ctor_created' = Len(ctor_buttons)
    /\ UNCHANGED <<ctor_alignment, ctor_buttons, ctor_size, ctor_background, ctor_tops,
                   ctor_selector_y>>
    /\ UNCHANGED <<widgetVars, managerVars, menuVars, motionVars,
                   backgroundVars, textVars, gameVars>>

\* Menu.__configure_buttons, second statement: __align_buttons(buttons)
CtorAlignButtons ==
    /\ ctor_stage = "CREATED"
    /\ ctor_stage' = "ALIGNED"
    /\ ctor_tops' = AlignButtonsAt(ctor_alignment, ctor_size, ctor_created,
                                   ctor_background[1], ctor_background[2])
    /\ UNCHANGED <<ctor_alignment, ctor_buttons, ctor_size, ctor_background,
                   ctor_created, ctor_selector_y>>
    /\ UNCHANGED <<widgetVars, managerVars, menuVars, motionVars,
                   backgroundVars, textVars, gameVars>>

\* Menu.__init__ lines 102-107: the fields, the selector and its position
CtorFinish ==
    /\ ctor_stage = "ALIGNED"
    /\ ctor_stage' = "DONE"
    /\ ctor_selector_y' =
            UpdateSelectorPositionOf(ctor_size, ctor_tops, 0, ctor_selector_y)
    /\ UNCHANGED <<ctor_alignment, ctor_buttons, ctor_size, ctor_background,
                   ctor_created, ctor_tops>>
    /\ UNCHANGED <<widgetVars, managerVars, menuVars, motionVars,
                   backgroundVars, textVars, gameVars>>

\* the first __draw of the constructed menu, once start() is called
CtorFirstDraw ==
    /\ ctor_stage = "DONE"
    /\ ctor_stage' = "DRAWN"
    /\ UNCHANGED <<ctor_alignment, ctor_buttons, ctor_size, ctor_background,
                   ctor_created, ctor_tops, ctor_selector_y>>
    /\ UNCHANGED <<widgetVars, managerVars, menuVars, motionVars,
                   backgroundVars, textVars, gameVars>>

\* Menu.__init__ has been called with its arguments
CtorCalled ==
    /\ ctor_alignment \in CtorAlignments
    /\ ctor_buttons \in CtorButtonLists
    /\ ctor_size \in CtorButtonSizes
    /\ ctor_background \in CtorBackgrounds
    /\ ctor_stage = "CALLED"
    /\ ctor_created = 0
    /\ ctor_tops = <<>>
    /\ ctor_selector_y = SelectorHeight \div 2

CtorIdle ==
    /\ ctor_alignment = TOP_ALIGNMENT
    /\ ctor_buttons = <<>>
    /\ ctor_size = ButtonSize
    /\ ctor_background = <<0, 100>>
    /\ ctor_stage = "CALLED"
    /\ ctor_created = 0
    /\ ctor_tops = <<>>
    /\ ctor_selector_y = SelectorHeight \div 2

\* =========================================================================
\* Text, AnimatedText and AnimatedFont
\* =========================================================================

\* lengths of the contents and font sizes the texts are given
TextContents == {2, 3}
TextSizes == {1, 2}

\* Text.__configure_text / __configure_rect: the size of the rendered
\* surface. The glyph metrics are data of the font files; here a glyph of
\* font f at size 1 is (10 + f) wide and 10 high.
RenderWidth(content, size, font) == content * size * (10 + font)
RenderHeight(size) == size * 10

\* top-left corners, centres and top centres the texts are moved to; all of
\* them put the text inside the window
TextCoords == (0..MaxPos) \X (0..MaxPos)
TextCenters == {<<36, 20>>}
TextMidtops == {<<37, 0>>}

\* the coordinate setter of Text raises ValueError for a coordinate outside
\* the window (validation.is_invalid_coordinate)
IsInvalidCoordinate(coordinate) ==
    \E k \in 1..2 : coordinate[k] < 0 \/ coordinate[k] > WindowDimension

\* Rect.center of the rectangle with the given top-left corner
RectCenter(topleft, width, height) ==
    <<topleft[1] + width \div 2, topleft[2] + height \div 2>>

\* Rect.center = center / Rect.midtop = midtop: the top-left corner it gives
TopleftForCenter(center, width, height) ==
    <<center[1] - width \div 2, center[2] - height \div 2>>
TopleftForMidtop(midtop, width) == <<midtop[1] - width \div 2, midtop[2]>>

\* size of the rectangle the text draws now
TextWidth == RenderWidth(txt_content, txt_size, txt_font)
TextHeight == RenderHeight(txt_size)

\* Text.get_center
TextCenter == RectCenter(txt_rect, TextWidth, TextHeight)

\* the fields of the Text part after a call
TextBecomes(content, size, font, coordinate, rect) ==
    /\ txt_content' = content
    /\ txt_size' = size
    /\ txt_font' = font
    /\ txt_coordinate' = coordinate
    /\ txt_rect' = rect

\* AnimatedText.__reload_animation: HorizontalSwing.reload_animation binds
\* the rectangle the text draws now; its top-left is the origin and the
\* swing range is computed from its width
SwingReloaded(rect, width) ==
    /\ txt_swing_same' = TRUE
    /\ txt_swing_main' = rect
    /\ txt_swing_origin' = rect
    /\ txt_swing_limit' = CalculateTheSizeOfTheMove(width)
    /\ UNCHANGED txt_swing_direction

\* no reload: the animation keeps the rectangle it was bound to, which is
\* not the new rectangle Text.__reload_rect has made
SwingKept(old_rect) ==
    /\ txt_swing_same' = FALSE
    /\ txt_swing_main' = (IF txt_swing_same THEN old_rect ELSE txt_swing_main)
    /\ UNCHANGED <<txt_swing_origin, txt_swing_limit, txt_swing_direction>>

\* one more call is made on the AnimatedText, which has no list of fonts
NotAFont ==
    /\ txt_calls < MaxCalls
    /\ txt_calls' = txt_calls + 1
    /\ UNCHANGED <<txt_fonts, txt_font_index>>
OutsideText ==
    UNCHANGED <<widgetVars, managerVars, menuVars, motionVars,
                backgroundVars, ctorVars, gameVars>>

\* AnimatedText.set_content: the content setter of Text rebuilds the surface
\* and the rectangle at __coordinate, then the animation is reloaded
AnimatedTextSetContent(content) ==
    /\ TextBecomes(content, txt_size, txt_font, txt_coordinate, txt_coordinate)
    /\ SwingReloaded(txt_coordinate,
                     RenderWidth(content, txt_size, txt_font))
    /\ txt_call' = "mutator"
    /\ NotAFont /\ OutsideText

\* AnimatedText.set_size
AnimatedTextSetSize(size) ==
    /\ TextBecomes(txt_content, size, txt_font, txt_coordinate, txt_coordinate)
    /\ SwingReloaded(txt_coordinate,
                     RenderWidth(txt_content, size, txt_font))
    /\ txt_call' = "mutator"
    /\ NotAFont /\ OutsideText

\* AnimatedText.set_font_path
AnimatedTextSetFontPath(font) ==
    /\ TextBecomes(txt_content, txt_size, font, txt_coordinate, txt_coordinate)
    /\ SwingReloaded(txt_coordinate,
                     RenderWidth(txt_content, txt_size, font))
    /\ txt_call' = "mutator"
    /\ NotAFont /\ OutsideText

\* AnimatedText.set_coordinate
AnimatedTextSetCoordinate(coordinate) ==
    /\ TextBecomes(txt_content, txt_size, txt_font, coordinate, coordinate)
    /\ SwingReloaded(coordinate, TextWidth)
    /\ txt_call' = "mutator"
    /\ NotAFont /\ OutsideText

\* AnimatedText.set_center: Text.set_center moves the rectangle, assigns its
\* top-left to the coordinate (a new rectangle is made there), then the
\* animation is reloaded
AnimatedTextSetCenter(center) ==
    LET topleft == TopleftForCenter(center, TextWidth, TextHeight)
    IN  /\ TextBecomes(txt_content, txt_size, txt_font, topleft, topleft)
        /\ SwingReloaded(topleft, TextWidth)
        /\ txt_call' = "mutator"
        /\ NotAFont /\ OutsideText

\* Text.set_center_x, inherited: it calls self.set_center, the override
AnimatedTextSetCenterX(x) ==
    LET topleft == TopleftForCenter(<<x, TextCenter[2]>>, TextWidth,
                                    TextHeight)
    IN  /\ TextBecomes(txt_content, txt_size, txt_font, topleft, topleft)
        /\ SwingReloaded(topleft, TextWidth)
        /\ txt_call' = "mutator"
        /\ NotAFont /\ OutsideText

\* AnimatedText.set_size_keeping_center_coordinate: the centre is read, the
\* size is set and the centre is put back with set_center
AnimatedTextSetSizeKeepingCenter(size) ==
    LET width == RenderWidth(txt_content, size, txt_font)
        topleft == TopleftForCenter(TextCenter, width, RenderHeight(size))
    IN  /\ ~IsInvalidCoordinate(topleft)
        /\ TextBecomes(txt_content, size, txt_font, topleft, topleft)
        /\ SwingReloaded(topleft, width)
        /\ txt_call' = "mutator"
        /\ NotAFont /\ OutsideText

\* Text.set_x, inherited and not overridden: the coordinate setter makes a
\* new rectangle and the animation is not reloaded
AnimatedTextSetX(x) ==
    LET coordinate == <<x, txt_coordinate[2]>>
    IN  /\ TextBecomes(txt_content, txt_size, txt_font, coordinate, coordinate)
        /\ SwingKept(txt_rect)
        /\ txt_call' = "mutator"
        /\ NotAFont /\ OutsideText

\* Text.set_y, inherited and not overridden
AnimatedTextSetY(y) ==
    LET coordinate == <<txt_coordinate[1], y>>
    IN  /\ TextBecomes(txt_content, txt_size, txt_font, coordinate, coordinate)
        /\ SwingKept(txt_rect)
        /\ txt_call' = "mutator"
        /\ NotAFont /\ OutsideText

\* Text.set_midtop, inherited and not overridden: the rectangle is moved,
\* the coordinate setter makes a new one at the same place and the
\* animation is not reloaded
AnimatedTextSetMidtop(midtop) ==
    LET topleft == TopleftForMidtop(midtop, TextWidth)
    IN  /\ TextBecomes(txt_content, txt_size, txt_font, topleft, topleft)
        /\ SwingKept(topleft)
        /\ txt_call' = "mutator"
        /\ NotAFont /\ OutsideText

\* HorizontalSwing.animate / __go_left / __go_right: the x the main rectangle
\* is moved to and the direction the call leaves
SwingStep(current_x, origin_x, limit, direction) ==
    IF direction = "LEFT"
    THEN IF current_x > origin_x - limit
         THEN [x |-> current_x - STEP_SIZE, direction |-> "LEFT"]
         ELSE [x |-> current_x, direction |-> "RIGHT"]
    ELSE IF current_x < origin_x + limit
         THEN [x |-> current_x + STEP_SIZE, direction |-> "RIGHT"]
         ELSE [x |-> current_x, direction |-> "LEFT"]

\* AnimatedText.animate(event): on its timer event the animation moves the
\* rectangle it is bound to
AnimatedTextAnimate(is_swing_event) ==
    /\ txt_calls < MaxCalls
    /\ txt_calls' = txt_calls + 1
    /\ IF is_swing_event
       THEN LET step == SwingStep(txt_swing_main[1], txt_swing_origin[1],
                                  txt_swing_limit, txt_swing_direction)
                moved == <<step.x, txt_swing_main[2]>>
            IN  /\ txt_swing_main' = moved
                /\ txt_swing_direction' = step.direction
                /\ txt_rect' = (IF txt_swing_same THEN moved ELSE txt_rect)
       ELSE UNCHANGED <<txt_swing_main, txt_swing_direction, txt_rect>>
    /\ txt_call' = (IF is_swing_event THEN "swing_event" ELSE "other_event")
    /\ UNCHANGED <<txt_content, txt_size, txt_font, txt_coordinate,
                   txt_swing_same, txt_swing_origin, txt_swing_limit,
                   txt_fonts, txt_font_index>>
    /\ OutsideText

\* AnimatedFont.animate: the font the text is given on a font event
FontToDisplay(fonts, index, font) == index

\* AnimatedFont.__update_current_font_path
UpdateCurrentFontPath(fonts, index) ==
    IF index < fonts - 1 THEN index + 1 ELSE 0

\* Text.set_font_path_keeping_center_coordinate: the top-left corner of the
\* text once it is given the font and put back on the centre it had
FontPathKeepingCenter(font) ==
    TopleftForCenter(TextCenter, RenderWidth(txt_content, txt_size, font),
                     TextHeight)

\* AnimatedFont.animate(event): on the font event the text is given the font
\* at the current index, its centre kept, and the index moves on
AnimatedFontAnimate(is_font_event) ==
    /\ IF is_font_event
       THEN LET font == FontToDisplay(txt_fonts, txt_font_index, txt_font)
                topleft == FontPathKeepingCenter(font)
            IN  /\ TextBecomes(txt_content, txt_size, font, topleft, topleft)
                /\ txt_font_index' =
                       UpdateCurrentFontPath(txt_fonts, txt_font_index)
       ELSE UNCHANGED <<txt_content, txt_size, txt_font, txt_coordinate,
                        txt_rect, txt_font_index>>
    /\ txt_call' = (IF is_font_event THEN "font_event" ELSE "other_event")
    /\ UNCHANGED <<txt_fonts, txt_swing_same, txt_swing_main,
                   txt_swing_origin, txt_swing_limit, txt_swing_direction,
                   txt_calls>>
    /\ OutsideText

\* Text.set_center on the AnimatedFont
AnimatedFontSetCenter(center) ==
    LET topleft == TopleftForCenter(center, TextWidth, TextHeight)
    IN  /\ TextBecomes(txt_content, txt_size, txt_font, topleft, topleft)
        /\ txt_call' = "mutator"
        /\ UNCHANGED <<txt_fonts, txt_font_index, txt_swing_same,
                       txt_swing_main, txt_swing_origin, txt_swing_limit,
                       txt_swing_direction, txt_calls>>
        /\ OutsideText

\* Text.set_size_keeping_center_coordinate on the AnimatedFont
AnimatedFontSetSizeKeepingCenter(size) ==
    LET topleft == TopleftForCenter(TextCenter,
                       RenderWidth(txt_content, size, txt_font),
                       RenderHeight(size))
    IN  /\ TextBecomes(txt_content, size, txt_font, topleft, topleft)
        /\ txt_call' = "mutator"
        /\ UNCHANGED <<txt_fonts, txt_font_index, txt_swing_same,
                       txt_swing_main, txt_swing_origin, txt_swing_limit,
                       txt_swing_direction, txt_calls>>
        /\ OutsideText

\* Text(content, size, color, font_path, coordinate)
TextConstructed ==
    /\ txt_content \in TextContents
    /\ txt_size \in TextSizes
    /\ txt_font = 0
    /\ txt_coordinate \in TextCoords
    /\ txt_rect = txt_coordinate
    /\ txt_call = "init"
    /\ txt_calls = 0

\* no animation is attached to the text
NoSwing ==
    /\ txt_swing_same = FALSE
    /\ txt_swing_main = <<0, 0>>
    /\ txt_swing_origin = <<0, 0>>
    /\ txt_swing_limit = 0
    /\ txt_swing_direction = "LEFT"

\* AnimatedText(content, size, color, font_path, coordinate): the swing is
\* bound to the rectangle of the text
AnimatedTextConstructed ==
    /\ TextConstructed
    /\ txt_swing_same = TRUE
    /\ txt_swing_main = txt_rect
    /\ txt_swing_origin = txt_rect
    /\ txt_swing_limit = CalculateTheSizeOfTheMove(TextWidth)
    /\ txt_swing_direction = "LEFT"
    /\ txt_fonts = 1
    /\ txt_font_index = 0

\* AnimatedFont(content, size, color, font_paths, coordinate)
AnimatedFontConstructed ==
    /\ TextConstructed
    /\ NoSwing
    /\ txt_fonts \in 1..MaxFonts
    /\ txt_font_index = 0

TextIdle ==
    /\ txt_content = 1
    /\ txt_size = 1
    /\ txt_font = 0
    /\ txt_coordinate = <<0, 0>>
    /\ txt_rect = <<0, 0>>
    /\ txt_call = "init"
    /\ txt_calls = 0
    /\ NoSwing
    /\ txt_fonts = 1
    /\ txt_font_index = 0

\* =========================================================================
\* Game, Timer and Loading
\* =========================================================================

\* enuns/game_state.py
GameStates == {"MENU", "PAUSE", "TIMER", "LOADING", "GAME"}

\* BasicPiece.set_game_state(state): the state is replaced, and the state it
\* replaces is what get_last_game_state() returns from then on
SetGameState(state) ==
    /\ gs_last' = gs_state
    /\ gs_state' = state

\* Loading.__select_next_game_state: the game state it leaves, given the
\* last game state and the current one
LoadingSelectNextGameState(last, state) ==
    IF last = "MENU" THEN "TIMER"
    ELSE IF last = "PAUSE" THEN "MENU"
    ELSE state

TimerSelectNextGameStateAfterLoadingOnly(last, state) ==
    IF last = "LOADING" THEN "GAME" ELSE state

\* Timer.__select_next_game_state
TimerSelectNextGameState(last, state) ==
    IF last = "LOADING" THEN "GAME"
    ELSE IF last = "PAUSE" THEN "GAME"
    ELSE state

\* the game state after a screen has selected the next one: set_game_state
\* is called only when a branch is taken
GameStateSelected(next) ==
    IF next # gs_state
    THEN SetGameState(next)
    ELSE UNCHANGED <<gs_state, gs_last>>

TimerEventSoundsAtZero(t, is_timer_event) ==
    IF is_timer_event
    THEN [aux |-> t.aux - 1,
          content |-> IF t.aux >= 0 THEN t.aux ELSE t.content,
          sounds |-> IF t.aux >= 0 THEN t.sounds + 1 ELSE t.sounds,
          events |-> t.events + 1]
    ELSE t

\* Timer.__events, one event of the frame: on a timer event the number is
\* displayed and the tick sound played while the counter is positive, and the
\* counter goes down
TimerEvent(t, is_timer_event) ==
    IF is_timer_event
    THEN [aux |-> t.aux - 1,
          content |-> IF t.aux > 0 THEN t.aux ELSE t.content,
          sounds |-> IF t.aux > 0 THEN t.sounds + 1 ELSE t.sounds,
          events |-> t.events + 1]
    ELSE t

\* Timer.__events: every event of the frame, in order
RECURSIVE TimerEvents(_, _)
TimerEvents(t, batch) ==
    IF batch = <<>>
    THEN t
    ELSE TimerEvents(TimerEvent(t, Head(batch)), Tail(batch))

\* the events one frame of the Timer finds in the queue: for each, whether it
\* is the timer event
TimerBatches == UNION {[1..n -> BOOLEAN] : n \in 0..MaxBatch}

OutsideGame ==
    UNCHANGED <<widgetVars, managerVars, menuVars, motionVars,
                backgroundVars, ctorVars, textVars>>

\* Game.__loop, state MENU: MainMenu.start() returns once START was chosen
GameMenuStart ==
    /\ gs_pc = "LOOP"
    /\ gs_state = "MENU"
    /\ SetGameState("GAME")
    /\ gs_screen' = "MENU"
    /\ UNCHANGED <<gs_pc, load_seconds, load_elapsed, tm_seconds, tm_aux,
                   tm_content, tm_events, tm_sounds>>
    /\ OutsideGame

\* Game.__loop, state PAUSE: MainMenu.start_pause_menu() returns once
\* CONTINUE was chosen, or BACK_TO_MAIN_MENU and YES
GamePauseMenuStart(option) ==
    /\ gs_pc = "LOOP"
    /\ gs_state = "PAUSE"
    /\ SetGameState(IF option = "CONTINUE" THEN "TIMER" ELSE "LOADING")
    /\ gs_screen' = "PAUSE"
    /\ UNCHANGED <<gs_pc, load_seconds, load_elapsed, tm_seconds, tm_aux,
                   tm_content, tm_events, tm_sounds>>
    /\ OutsideGame

\* Game.__loop, state GAME: one frame; the pause key sets the state PAUSE
GameFrame(pause_pressed) ==
    /\ gs_pc = "LOOP"
    /\ gs_state = "GAME"
    /\ IF pause_pressed
       THEN SetGameState("PAUSE")
       ELSE UNCHANGED <<gs_state, gs_last>>
    /\ gs_screen' = "GAME"
    /\ UNCHANGED <<gs_pc, load_seconds, load_elapsed, tm_seconds, tm_aux,
                   tm_content, tm_events, tm_sounds>>
    /\ OutsideGame

\* Game.__loop, state TIMER: Timer.start() is entered
TimerStart ==
    /\ gs_pc = "LOOP"
    /\ gs_state = "TIMER"
    /\ gs_pc' = "TIMER"
    /\ gs_screen' = "TIMER"
    /\ tm_events' = 0
    /\ tm_sounds' = 0
    /\ UNCHANGED <<gs_state, gs_last, load_seconds, load_elapsed, tm_seconds,
                   tm_aux, tm_content>>
    /\ OutsideGame

\* Timer.__loop, one frame: the events are handled; when the counter is
\* below 0 the loop ends and __stop restores the number and the counter and
\* selects the next game state, and start() returns
TimerFrame(batch) ==
    LET t == TimerEvents([aux |-> tm_aux, content |-> tm_content,
                          sounds |-> tm_sounds, events |-> tm_events], batch)
    IN  /\ gs_pc = "TIMER"
        /\ tm_events' = t.events
        /\ tm_sounds' = t.sounds
        /\ IF t.aux > -1
           THEN /\ tm_aux' = t.aux
                /\ tm_content' = t.content
                /\ UNCHANGED <<gs_state, gs_last, gs_pc>>
           ELSE /\ tm_aux' = tm_seconds
                /\ tm_content' = tm_seconds
                /\ GameStateSelected(TimerSelectNextGameState(gs_last,
                                                              gs_state))
                /\ gs_pc' = "LOOP"
        /\ UNCHANGED <<gs_screen, load_seconds, load_elapsed, tm_seconds>>
        /\ OutsideGame

\* Game.__loop, state LOADING: Loading.start() is entered, the start time is
\* taken
LoadingStart ==
    /\ gs_pc = "LOOP"
    /\ gs_state = "LOADING"
    /\ gs_pc' = "LOADING"
    /\ gs_screen' = "LOADING"
    /\ load_elapsed' = 0
    /\ UNCHANGED <<gs_state, gs_last, load_seconds, tm_seconds, tm_aux,
                   tm_content, tm_events, tm_sounds>>
    /\ OutsideGame

\* Loading.__loop, one frame during which so many seconds pass: when no time
\* is left the loop ends, __stop selects the next game state and start()
\* returns
LoadingFrame(passed) ==
    /\ gs_pc = "LOADING"
    /\ IF load_elapsed + passed < load_seconds
       THEN /\ load_elapsed' = load_elapsed + passed
            /\ UNCHANGED <<gs_state, gs_last, gs_pc>>
       ELSE /\ load_elapsed' = 0
            /\ GameStateSelected(LoadingSelectNextGameState(gs_last,
                                                            gs_state))
            /\ gs_pc' = "LOOP"
    /\ UNCHANGED <<gs_screen, load_seconds, tm_seconds, tm_aux, tm_content,
                   tm_events, tm_sounds>>
    /\ OutsideGame

\* Game(basic_piece, sound_manager, score_manager): the game starts in the
\* menu, with a Timer and a Loading of some seconds
GameConstructed ==
    /\ gs_state = "MENU"
    /\ gs_last = "MENU"
    /\ gs_pc = "LOOP"
    /\ gs_screen = "NONE"
    /\ load_seconds \in 1..MaxSeconds
    /\ load_elapsed = 0
    /\ tm_seconds \in 1..MaxSeconds
    /\ tm_aux = tm_seconds
    /\ tm_content = tm_seconds
    /\ tm_events = 0
    /\ tm_sounds = 0

GameIdle ==
    /\ gs_state = "MENU"
    /\ gs_last = "MENU"
    /\ gs_pc = "LOOP"
    /\ gs_screen = "NONE"
    /\ load_seconds = 1
    /\ load_elapsed = 0
    /\ tm_seconds = 1
    /\ tm_aux = 1
    /\ tm_content = 1
    /\ tm_events = 0
    /\ tm_sounds = 0

\* Button(option, size, coordinate=...) and Click(top, bottom, secondary)
WidgetConstructed ==
    /\ btn_coordinate \in {0} \X (0..MaxCoord)
    /\ btn_size \in 1..MaxSize
    /\ btn_accent = "secondary"
    /\ btn_result = "NONE"
    /\ btn_args = [y |-> 0, is_clicking |-> FALSE]
    /\ click_stage = "NONE"
    /\ click_before = "NONE"
    /\ click_calls = FALSE
    /\ click_main \in Coords
    /\ click_origin = click_main
    /\ click_bottom \in Coords
    /\ click_secondary \in {<<>>} \cup {<<c>> : c \in Coords}

WidgetIdle ==
    /\ btn_coordinate = <<0, 0>>
    /\ btn_size = 1
    /\ btn_accent = "secondary"
    /\ btn_result = "NONE"
    /\ btn_args = [y |-> 0, is_clicking |-> FALSE]
    /\ click_stage = "NONE"
    /\ click_before = "NONE"
    /\ click_calls = FALSE
    /\ click_main = <<0, 0>>
    /\ click_origin = <<0, 0>>
    /\ click_bottom = <<0, 0>>
    /\ click_secondary = <<>>

\* RecordManager(record_path) / ScoreManager(score_path): __init__ reads the file
ManagersConstructed ==
    /\ record_file \in 0..MaxRecord
    /\ record_cache = record_file
    /\ score_file \in 0..MaxRecord
    /\ score_cache = score_file
    /\ manager_call = "none"
    /\ manager_before = 0

ManagersIdle ==
    /\ record_file = 0
    /\ record_cache = 0
    /\ score_file = 0
    /\ score_cache = 0
    /\ manager_call = "none"
    /\ manager_before = 0

\* Menu.__init__ of every menu: buttons aligned, selector next to button 0
MenusConstructed ==
    /\ stack = <<>>
    /\ current_button = [m \in Menus |-> 0]
    /\ selected_option = [m \in Menus |-> "NONE"]
    /\ last_selected_option = [m \in Menus |-> "NONE"]
    /\ is_running = [m \in Menus |-> TRUE]
    /\ btn_top = [m \in Menus |-> AlignButtons(m)]
    /\ selector_y = [m \in Menus |->
            UpdateSelectorPosition(AlignButtons(m), 0, SelectorHeight \div 2)]
    /\ selector_x = [m \in Menus |->
            UpdateSelectorPositionX(AlignButtons(m), 0, SelectorHeight \div 2,
                                    SelectorStartX)]
    /\ current_image = [m \in Menus |-> 0]
    /\ difficulty_background = 0
    /\ volume = INITIAL_VOLUME
    /\ difficulty = "NONE"
    /\ window_open = TRUE
    /\ scroll_plays = 0
    /\ NoTickInput
    /\ select_held = FALSE
    /\ last_return = [menu |-> "none", value |-> "NONE", quit_option |-> "NONE"]

MenuIdle ==
    /\ MenusConstructed
    /\ root = "main"
    /\ main_child = "credits"
    /\ game_state = "MENU"

NextWidget ==
    \/ \E y \in 0..(2 * MaxCoord + 1), c \in BOOLEAN : ButtonEvents(y, c)
    \/ \E o \in BOOLEAN, c \in BOOLEAN : ClickAnimate(o, c)

NextManagers ==
    \/ \E v \in 0..MaxRecord : SetRecord(v)
    \/ ResetRecord
    \/ \E v \in 0..MaxRecord : SetScore(v)
    \/ ResetScore

NextMenu ==
    \/ \E m \in Roots : Start(m)
    \/ \E events \in EventQueues, pressed_keys \in SUBSET Keys :
            IdleTick(events, pressed_keys)
    \/ MainMenuStart
    \/ \E pair \in {<<"OPTIONS", "options">>, <<"RECORD", "record">>,
                     <<"CREDITS", "credits">>} :
            MainMenuOpenChild(pair[1], pair[2])
    \/ MainMenuQuit
    \/ \E option \in {"VOLUME_UP", "VOLUME_DOWN"} : OptionsMenuVolume(option)
    \/ \E m \in Menus, option \in {"BACK", "YES", "NO"} : PlainQuit(m, option)
    \/ PauseMenuContinue
    \/ \E m \in {"pause", "record"},
          option \in {"BACK_TO_MAIN_MENU", "DELETE_RECORD"} :
            OpenConfirmation(m, option)
    \/ ScoreMenuDelete
    \/ \E option \in {"EASY", "MEDIUM", "HARD", "BACK"} :
            DifficultyMenuAction(option)
    \/ LoopExit

InitWidget ==
    /\ WidgetConstructed
    /\ ManagersIdle /\ MenuIdle /\ MotionIdle /\ BackgroundIdle /\ CtorIdle /\ TextIdle /\ GameIdle
InitManagers ==
    /\ ManagersConstructed
    /\ WidgetIdle /\ MenuIdle /\ MotionIdle /\ BackgroundIdle /\ CtorIdle /\ TextIdle /\ GameIdle

\* the program starts on one root menu; the pause menu is entered in state
\* PAUSE (game.py line 72), the others from the MENU state. A behaviour of
\* the main menu follows a user who visits one of its three child menus (any
\* number of times); a visit of the record menu starts with a record stored
InitMenu ==
    /\ MenusConstructed
    /\ root \in Roots
    /\ main_child \in (IF root = "main" THEN {"options", "record", "credits"}
                       ELSE {"none"})
    /\ game_state = IF root = "pause" THEN "PAUSE" ELSE "MENU"
    /\ record_file = (IF main_child = "record" THEN MaxRecord ELSE 0)
    /\ record_cache = record_file
    /\ score_file \in (IF root = "score" THEN {0, MaxRecord} ELSE {0})
    /\ score_cache = score_file
    /\ manager_call = "none"
    /\ manager_before = 0
    /\ WidgetIdle
    /\ MotionIdle /\ BackgroundIdle /\ CtorIdle /\ TextIdle /\ GameIdle

\* a DifficultyMenu whose four buttons were positioned through the public
\* Button setters (coordinate, set_y, set_center) after the menu aligned them:
\* any row may be taken by any button, overlapping rows included
LayoutRows == {40, 45, 60}
InitLayout ==
    /\ root = "difficulty"
    /\ main_child = "none"
    /\ game_state = "MENU"
    /\ ManagersIdle
    /\ WidgetIdle
    /\ MotionIdle /\ BackgroundIdle /\ CtorIdle /\ TextIdle /\ GameIdle
    /\ stack = <<>>
    /\ current_button = [m \in Menus |-> 0]
    /\ selected_option = [m \in Menus |-> "NONE"]
    /\ last_selected_option = [m \in Menus |-> "NONE"]
    /\ is_running = [m \in Menus |-> TRUE]
    /\ \E tops \in [1..Len(Buttons("difficulty")) -> LayoutRows] :
          /\ btn_top = [m \in Menus |->
                            IF m = "difficulty" THEN tops ELSE AlignButtons(m)]
          /\ selector_y = [m \in Menus |->
                UpdateSelectorPosition(btn_top[m], 0, SelectorHeight \div 2)]
          /\ selector_x = [m \in Menus |->
                UpdateSelectorPositionX(btn_top[m], 0, SelectorHeight \div 2,
                                        SelectorStartX)]
    /\ current_image = [m \in Menus |-> 0]
    /\ difficulty_background = 0
    /\ volume = INITIAL_VOLUME
    /\ difficulty = "NONE"
    /\ window_open = TRUE
    /\ scroll_plays = 0
    /\ NoTickInput
    /\ select_held = FALSE
    /\ last_return = [menu |-> "none", value |-> "NONE", quit_option |-> "NONE"]

NextLayout ==
    \/ Start("difficulty")
    \/ \E events \in EventQueues, pressed_keys \in SUBSET Keys :
            IdleTick(events, pressed_keys)
    \/ \E option \in {"EASY", "MEDIUM", "HARD", "BACK"} :
            DifficultyMenuAction(option)
    \/ LoopExit

NextAnimation ==
    \/ \E coordinate \in AnimCoords : SetCurrentCoordinate(coordinate)
    \/ \E x \in 0..MaxPos : SetCurrentCoordinateX(x)
    \/ \E y \in 0..MaxPos : SetCurrentCoordinateY(y)
    \/ RestoreOriginCoordinate
    \/ \E coordinate \in AnimCoords, width \in AnimWidths,
          secondary \in SecondaryLists :
            ReloadAnimation(coordinate, width, secondary)

NextSwing ==
    \/ SwingAnimate
    \/ \E coordinate \in (0..MaxPos) \X {0}, width \in SwingWidths,
          secondary \in {<<>>, <<<<1, MaxPos>>>>} :
            ReloadAnimation(coordinate, width, secondary)

InitAnimation ==
    /\ SwingConstructed
    /\ anim_width \in AnimWidths
    /\ WidgetIdle /\ ManagersIdle /\ MenuIdle /\ BackgroundIdle /\ CtorIdle /\ TextIdle /\ GameIdle

InitSwing ==
    /\ SwingConstructed
    /\ anim_main[2] = 0
    /\ WidgetIdle /\ ManagersIdle /\ MenuIdle /\ BackgroundIdle /\ CtorIdle /\ TextIdle /\ GameIdle

SpecAnimation == InitAnimation /\ [][NextAnimation]_vars
SpecSwing == InitSwing /\ [][NextSwing]_vars

NextBackground ==
    \/ \E is_image_event \in BOOLEAN : BackgroundEvents(is_image_event)
    \/ BackgroundDraw
    \/ \E center \in BgCenters : BackgroundSetCenter(center)
    \/ \E images \in 0..MaxImages, center \in {BgHome, <<0, MaxPos>>} :
            ChangeImageList(images, center)
    \/ ResetImageLoop

InitBackground ==
    /\ BackgroundConstructed
    /\ WidgetIdle /\ ManagersIdle /\ MenuIdle /\ MotionIdle /\ CtorIdle /\ TextIdle /\ GameIdle

SpecBackground == InitBackground /\ [][NextBackground]_vars

NextAnimatedText ==
    \/ \E content \in TextContents : AnimatedTextSetContent(content)
    \/ \E size \in TextSizes : AnimatedTextSetSize(size)
    \/ \E font \in 0..1 : AnimatedTextSetFontPath(font)
    \/ \E coordinate \in TextCoords : AnimatedTextSetCoordinate(coordinate)
    \/ \E center \in TextCenters : AnimatedTextSetCenter(center)
    \/ \E center \in TextCenters : AnimatedTextSetCenterX(center[1])
    \/ \E size \in TextSizes : AnimatedTextSetSizeKeepingCenter(size)
    \/ \E x \in 0..MaxPos : AnimatedTextSetX(x)
    \/ \E y \in 0..MaxPos : AnimatedTextSetY(y)
    \/ \E midtop \in TextMidtops : AnimatedTextSetMidtop(midtop)
    \/ \E is_swing_event \in BOOLEAN : AnimatedTextAnimate(is_swing_event)

NextAnimatedFont ==
    \/ \E is_font_event \in BOOLEAN : AnimatedFontAnimate(is_font_event)
    \/ \E center \in TextCenters : AnimatedFontSetCenter(center)
    \/ \E size \in TextSizes : AnimatedFontSetSizeKeepingCenter(size)

InitAnimatedText ==
    /\ AnimatedTextConstructed
    /\ WidgetIdle /\ ManagersIdle /\ MenuIdle /\ MotionIdle /\ BackgroundIdle
    /\ CtorIdle /\ GameIdle

InitAnimatedFont ==
    /\ AnimatedFontConstructed
    /\ WidgetIdle /\ ManagersIdle /\ MenuIdle /\ MotionIdle /\ BackgroundIdle
    /\ CtorIdle /\ GameIdle

SpecAnimatedText == InitAnimatedText /\ [][NextAnimatedText]_vars
SpecAnimatedFont == InitAnimatedFont /\ [][NextAnimatedFont]_vars

NextCtor ==
    \/ CtorCheckAlignment
    \/ CtorCreateButtons
    \/ CtorAlignButtons
    \/ CtorFinish
    \/ CtorFirstDraw

NextGame ==
    \/ GameMenuStart
    \/ \E option \in {"CONTINUE", "YES"} : GamePauseMenuStart(option)
    \/ \E pause_pressed \in BOOLEAN : GameFrame(pause_pressed)
    \/ TimerStart
    \/ \E batch \in TimerBatches : TimerFrame(batch)
    \/ LoadingStart
    \/ \E passed \in 0..1 : LoadingFrame(passed)

InitGame ==
    /\ GameConstructed
    /\ WidgetIdle /\ ManagersIdle /\ MenuIdle /\ MotionIdle /\ BackgroundIdle
    /\ CtorIdle /\ TextIdle

SpecGame == InitGame /\ [][NextGame]_vars

\* the blocking loops make progress: the player leaves the pause menu, timer
\* events keep arriving and the wall clock advances
GameProgress ==
    /\ WF_vars(\E option \in {"CONTINUE", "YES"} : GamePauseMenuStart(option))
    /\ WF_vars(TimerStart)
    /\ WF_vars(\E batch \in TimerBatches :
                  (\E i \in DOMAIN batch : batch[i]) /\ TimerFrame(batch))
    /\ WF_vars(LoadingStart)
    /\ WF_vars(LoadingFrame(1))

SpecGameFair == SpecGame /\ GameProgress

InitCtor ==
    /\ CtorCalled
    /\ WidgetIdle /\ ManagersIdle /\ MenuIdle /\ MotionIdle /\ BackgroundIdle
    /\ TextIdle /\ GameIdle

SpecCtor == InitCtor /\ [][NextCtor]_vars

SpecWidget == InitWidget /\ [][NextWidget]_vars
SpecLayout == InitLayout /\ [][NextLayout]_vars
SpecManagers == InitManagers /\ [][NextManagers]_vars
SpecMenu == InitMenu /\ [][NextMenu]_vars

\* =========================================================================
\* Properties of the Button and the Click animation (SpecWidget)
\* =========================================================================

\* the last events() call had the selector row-aligned and select pressed
BtnAlignedAndPressed ==
    /\ IsNextToTheButton(btn_coordinate, btn_size, btn_args.y)
    /\ btn_args.is_clicking

C3_FourTransitions ==
    click_calls =>
        <<click_before, click_stage>> \in
            {<<"NONE", "NONE">>, <<"NONE", "RUNNING">>,
             <<"RUNNING", "FINISHED">>, <<"FINISHED", "NONE">>}

\* C3 amended: every animate() call takes the stage through one of
\* NONE->NONE, NONE->RUNNING, RUNNING->RUNNING, RUNNING->FINISHED,
\* FINISHED->NONE, FINISHED->RUNNING (a press that is held keeps RUNNING and
\* a press right after FINISHED starts again).
C3_SixTransitions ==
    click_calls =>
        <<click_before, click_stage>> \in
            {<<"NONE", "NONE">>, <<"NONE", "RUNNING">>,
             <<"RUNNING", "RUNNING">>, <<"RUNNING", "FINISHED">>,
             <<"FINISHED", "NONE">>, <<"FINISHED", "RUNNING">>}

C3_Witness ==
    /\ click_calls
    /\ click_before = "RUNNING"
    /\ click_stage = "RUNNING"

\* C4: the stage is FINISHED after an animate() call only if it was RUNNING
\* immediately before that call.
C4_FinishedOnlyFromRunning ==
    (click_calls /\ click_stage = "FINISHED") => click_before = "RUNNING"

C4_Witness ==
    /\ click_calls
    /\ click_stage = "FINISHED"
    /\ click_before = "RUNNING"
    /\ click_main = click_origin

\* =========================================================================
\* Properties of the managers (SpecManagers)
\* =========================================================================

\* C2: a set_record(v) / set_score(v) call leaves the stored value at the
\* maximum of the value stored before and v, so the stored value never
\* decreases and a v that is not strictly greater changes nothing.
C2_StoredValueIsMaximum ==
    [][ /\ \A v \in 0..MaxRecord :
              SetRecord(v) => record_file' = Max(record_file, v)
        /\ \A v \in 0..MaxRecord :
              SetScore(v) => score_file' = Max(score_file, v) ]_vars


\* =========================================================================
\* Properties of the menu engine (SpecMenu, SpecLayout)
\* =========================================================================

\* list positions of the buttons of menu m that return their option when
\* evaluated with the selector at y and the select key state given
FiringButtons(m, y, pressed_select) ==
    {i \in 1..Len(Buttons(m)) :
        pressed_select /\ SelectorIsNextToTheButton(btn_top[m][i], y)}

SmallestOf(indices) == CHOOSE i \in indices : \A j \in indices : i <= j

\* the menu at the top of the call stack is about to run an IDLE iteration
IdleIteration ==
    /\ stack # <<>>
    /\ is_running[Top]
    /\ selected_option[Top] = "NONE"

\* C5: in a tick the buttons are evaluated in list order and the first
\* non-NONE result wins: whenever two or more buttons would return their
\* option in the same tick, selected_option becomes the option of the button
\* with the smallest list index (and NONE when no button fires).
C5_FirstFiringButtonWins ==
    [][IdleIteration =>
          LET m == Top
              firing == FiringButtons(m, selector_y[m], "select" \in tick_keys')
          IN  selected_option'[m] =
                  IF firing = {} THEN "NONE"
                  ELSE Buttons(m)[SmallestOf(firing)]]_vars

\* a tick selected an option while the selector lies in the rows of at least
\* two buttons, and the selected option is the one listed first
C5_Witness ==
    /\ stack = <<"difficulty">>
    /\ Cardinality(FiringButtons("difficulty", selector_y["difficulty"], TRUE)) >= 2
    /\ 1 \notin FiringButtons("difficulty", selector_y["difficulty"], TRUE)
    /\ selected_option["difficulty"] =
          Buttons("difficulty")[SmallestOf(
              FiringButtons("difficulty", selector_y["difficulty"], TRUE))]

\* C6: whenever start() has returned (the menu is not running a loop), the
\* menu's focus index is 0, its selected option is NONE, its background image
\* index is 0 and its running flag is true, whatever happened during the run.
C6_ReturnedMenuIsInitial ==
    \A m \in Menus :
        (\A i \in 1..Len(stack) : stack[i] # m) =>
            /\ current_button[m] = 0
            /\ selected_option[m] = "NONE"
            /\ current_image[m] = 0
            /\ is_running[m]

\* the options menu returned after the focus had been moved to its last
\* button (BACK), and the main menu behind it has rotated its image
C6_Witness ==
    /\ last_return.menu = "options"
    /\ last_return.value = "BACK"
    /\ stack = <<"main">>
    /\ current_image["main"] = 1
    /\ current_button["options"] = 0

\* C7: with select not held, a key-down with down pressed moves the focus
\* index i to (i+1) mod n and one with up pressed moves it to (i-1) mod n,
\* every move (wraparound included) plays the scroll sound exactly once, and
\* the focus index is always within 0..n-1.
C7_FocusMovesModuloN ==
    [][(IdleIteration /\ "select" \notin tick_keys') =>
          LET m == Top
              n == Len(Buttons(m))
              downs == IF "down" \in tick_keys' THEN tick_keydowns' ELSE 0
              ups == IF "up" \in tick_keys' THEN tick_keydowns' ELSE 0
          IN  /\ current_button'[m] =
                    (current_button[m] + downs + ups * (n - 1)) % n
              /\ scroll_plays' = downs + ups
              /\ current_button'[m] \in 0..(n - 1)]_vars

\* a tick moved the focus of the four-button menu onto its last button and
\* played the scroll sound once
C7_Witness ==
    /\ stack = <<"difficulty">>
    /\ current_button["difficulty"] = Len(Buttons("difficulty")) - 1
    /\ scroll_plays = 1
    /\ tick_keys = {"up"}
    /\ tick_keydowns = 1

\* C8: start() returns the option whose run_another_action call invoked
\* quit() in that same invocation; a ConfirmationMenu returns YES or NO,
\* never NONE and never the value of an earlier invocation.
C8_ReturnsTheQuittingOption ==
    last_return.menu # "none" =>
        /\ last_return.value = last_return.quit_option
        /\ last_return.value # "NONE"
        /\ last_return.menu \in ConfirmationMenus =>
              last_return.value \in {"YES", "NO"}

\* the record confirmation answered NO in an invocation that followed one
\* answered YES (the stored record was deleted before)
C8_Witness ==
    /\ last_return = [menu |-> "record_confirm", value |-> "NO",
                      quit_option |-> "NO"]
    /\ record_cache = MaxRecord
    /\ record_file = 0

\* the pause menu's confirmation is about to return the given answer
PauseConfirmationReturns(answer) ==
    /\ stack = <<"pause", "pause_confirm">>
    /\ ~is_running["pause_confirm"]
    /\ last_selected_option["pause_confirm"] = answer

\* C9: PauseMenu BACK_TO_MAIN_MENU runs the confirmation sub-menu; the game
\* state changes (to LOADING) and the pause menu quits iff the confirmation
\* returned YES; on NO the game state is unchanged, the selected option is
\* reset to NONE and the pause menu keeps running.
C9_PauseCommitsOnlyOnYes ==
    [][/\ Acting("pause", "BACK_TO_MAIN_MENU") =>
              /\ stack' = <<"pause", "pause_confirm">>
              /\ game_state' = game_state
              /\ is_running'["pause"]
       /\ PauseConfirmationReturns("YES") =>
              /\ game_state' = "LOADING"
              /\ ~is_running'["pause"]
              /\ stack' = <<"pause">>
       /\ PauseConfirmationReturns("NO") =>
              /\ game_state' = game_state
              /\ selected_option'["pause"] = "NONE"
              /\ is_running'["pause"]
              /\ stack' = <<"pause">>
       /\ (root = "pause" /\ game_state' = "LOADING" /\ game_state # "LOADING")
              => PauseConfirmationReturns("YES")
       /\ (is_running["pause"] /\ ~is_running'["pause"]) =>
              \/ PauseConfirmationReturns("YES")
              \/ Acting("pause", "CONTINUE")]_vars

\* the confirmation returned NO and the pause menu runs on, IDLE, with the
\* game state still PAUSE
C9_Witness ==
    /\ last_return = [menu |-> "pause_confirm", value |-> "NO",
                      quit_option |-> "NO"]
    /\ stack = <<"pause">>
    /\ last_selected_option["pause"] = "BACK_TO_MAIN_MENU"
    /\ selected_option["pause"] = "NONE"
    /\ is_running["pause"]
    /\ game_state = "PAUSE"

\* the DELETE option of the record menu and of the score menu
DeleteOption(m) == IF m = "record" THEN "DELETE_RECORD" ELSE "DELETE_SCORE"

\* the confirmation of menu m is about to return the given answer
DeleteConfirmationReturns(m, answer) ==
    /\ stack # <<>>
    /\ Top = ConfirmationOf(m)
    /\ ~is_running[Top]
    /\ last_selected_option[Top] = answer

\* what the confirmation's answer does in RecordMenu / ScoreMenu: the
\* counter is reset iff YES, the selected option is reset, the menu stays open
DeleteAnswerHandled ==
    /\ \A m \in {"record", "score"} :
          /\ DeleteConfirmationReturns(m, "YES") =>
                /\ (m = "record" => record_file' = 0 /\ score_file' = score_file)
                /\ (m = "score" => score_file' = 0 /\ record_file' = record_file)
                /\ selected_option'[m] = "NONE"
                /\ is_running'[m]
                /\ Top' = m
          /\ DeleteConfirmationReturns(m, "NO") =>
                /\ record_file' = record_file
                /\ score_file' = score_file
                /\ selected_option'[m] = "NONE"
                /\ is_running'[m]
                /\ Top' = m
    /\ record_file' # record_file => DeleteConfirmationReturns("record", "YES")
    /\ score_file' # score_file => DeleteConfirmationReturns("score", "YES")

\* C10 as stated: in RecordMenu / ScoreMenu, choosing DELETE runs the
\* confirmation sub-menu; the counter is reset to zero iff the confirmation
\* returned YES; in both cases the selected option is reset to NONE and the
\* menu stays open.
C10_DeleteAlwaysAsks ==
    [][/\ \A m \in {"record", "score"} :
              Acting(m, DeleteOption(m)) =>
                  /\ stack' = Append(stack, ConfirmationOf(m))
                  /\ is_running'[m]
       /\ DeleteAnswerHandled]_vars

\* C10 amended: RecordMenu DELETE_RECORD always runs the confirmation;
\* ScoreMenu DELETE_SCORE runs it only while the stored score is positive and
\* otherwise resets the selected option at once, leaving the score at 0. The
\* counter is reset to zero iff a confirmation returned YES; after the answer
\* the selected option is NONE and the menu is still open.
C10_DeleteAsksUnlessScoreIsZero ==
    [][/\ Acting("record", "DELETE_RECORD") =>
              /\ stack' = Append(stack, "record_confirm")
              /\ is_running'["record"]
       /\ (Acting("score", "DELETE_SCORE") /\ score_file > 0) =>
              /\ stack' = Append(stack, "score_confirm")
              /\ is_running'["score"]
       /\ (Acting("score", "DELETE_SCORE") /\ score_file = 0) =>
              /\ stack' = stack
              /\ selected_option'["score"] = "NONE"
              /\ score_file' = 0
              /\ is_running'["score"]
       /\ DeleteAnswerHandled]_vars

\* DELETE_SCORE was chosen with no score stored: the score menu is IDLE again
\* and no confirmation menu has ever returned
C10_Witness ==
    /\ stack = <<"score">>
    /\ last_selected_option["score"] = "DELETE_SCORE"
    /\ selected_option["score"] = "NONE"
    /\ score_file = 0
    /\ score_cache = 0
    /\ last_return.menu = "none"

\* C11 as stated: MainMenu START opens the difficulty sub-menu; if it comes
\* back with BACK the main menu stays open (game state unchanged, selected
\* option NONE), otherwise the game state becomes GAME and the main menu
\* quits.
C11_StartOpensDifficultyMenu ==
    [][/\ Acting("main", "START") =>
              /\ stack' = Append(stack, "difficulty")
              /\ game_state' = game_state
              /\ is_running'["main"]
       /\ (/\ stack = <<"main", "difficulty">>
           /\ ~is_running["difficulty"]) =>
              IF last_selected_option["difficulty"] = "BACK"
              THEN /\ game_state' = game_state
                   /\ selected_option'["main"] = "NONE"
                   /\ is_running'["main"]
              ELSE /\ game_state' = "GAME"
                   /\ ~is_running'["main"]]_vars

\* C11 amended: MainMenu START opens no sub-menu: in the same loop iteration
\* it sets the game state to GAME and quits the main menu; START is the only
\* option that makes the main menu quit.
C11_StartCommitsGameAtOnce ==
    [][/\ Acting("main", "START") =>
              /\ stack' = stack
              /\ game_state' = "GAME"
              /\ ~is_running'["main"]
       /\ (is_running["main"] /\ ~is_running'["main"]) =>
              Acting("main", "START")]_vars

\* START was chosen: the main menu has quit with the game state GAME and
\* no sub-menu on top of it
C11_Witness ==
    /\ stack = <<"main">>
    /\ last_selected_option["main"] = "START"
    /\ ~is_running["main"]
    /\ game_state = "GAME"

\* the option of the main menu that opens each child menu
MainMenuChildren ==
    {<<"OPTIONS", "options">>, <<"RECORD", "record">>, <<"CREDITS", "credits">>}

\* C12: MainMenu OPTIONS, RECORD and CREDITS each run the child menu's
\* start() to completion and then reset the selected option to NONE without
\* quitting: when the child returns the main menu is IDLE and still running,
\* and the game state is unchanged by the round trip.
C12_ChildRoundTripKeepsMainOpen ==
    [][/\ \A pair \in MainMenuChildren :
              Acting("main", pair[1]) =>
                  /\ stack' = <<"main", pair[2]>>
                  /\ is_running'["main"]
                  /\ selected_option'["main"] = pair[1]
       /\ (Len(stack) >= 2 /\ stack[1] = "main") =>
              /\ game_state' = game_state
              /\ is_running'["main"]
       /\ (/\ Len(stack) = 2
           /\ stack[1] = "main"
           /\ ~is_running[stack[2]]) =>
              /\ stack' = <<"main">>
              /\ selected_option'["main"] = "NONE"]_vars

\* the credits menu has returned to the main menu, which is IDLE and still
\* running in game state MENU
C12_Witness ==
    /\ last_return.menu = "credits"
    /\ stack = <<"main">>
    /\ last_selected_option["main"] = "CREDITS"
    /\ selected_option["main"] = "NONE"
    /\ is_running["main"]
    /\ game_state = "MENU"

\* C13: in OptionsMenu, VOLUME_UP and VOLUME_DOWN change the shared sound
\* volume and reset the selected option to NONE without quitting (the menu
\* keeps running, the focus index is unchanged); BACK is the only option that
\* makes OptionsMenu.start() return.
C13_VolumeOptionsStayBackQuits ==
    [][/\ \A option \in {"VOLUME_UP", "VOLUME_DOWN"} :
              Acting("options", option) =>
                  /\ (option = "VOLUME_UP" /\ volume < 10) => volume' = volume + 1
                  /\ (option = "VOLUME_DOWN" /\ volume > 0) => volume' = volume - 1
                  /\ selected_option'["options"] = "NONE"
                  /\ is_running'["options"]
                  /\ current_button'["options"] = current_button["options"]
                  /\ stack' = stack
       /\ (is_running["options"] /\ ~is_running'["options"]) =>
              Acting("options", "BACK")
       /\ (stack # <<>> /\ Top = "options" /\ stack' # stack) =>
              /\ ~is_running["options"]
              /\ last_selected_option["options"] = "BACK"
              /\ last_return'.value = "BACK"]_vars

\* VOLUME_UP was chosen: the volume went up by one and the options menu is
\* IDLE again, still running, with the focus where it was
C13_Witness ==
    /\ stack = <<"main", "options">>
    /\ last_selected_option["options"] = "VOLUME_UP"
    /\ selected_option["options"] = "NONE"
    /\ is_running["options"]
    /\ volume = INITIAL_VOLUME + 1
    /\ current_button["options"] = 0

\* C14: PauseMenu CONTINUE sets the game state to the resume state TIMER and
\* quits the pause menu in the same loop iteration, without opening the
\* confirmation sub-menu.
C14_ContinueResumesAtOnce ==
    [][Acting("pause", "CONTINUE") =>
          /\ game_state' = "TIMER"
          /\ ~is_running'["pause"]
          /\ stack' = stack
          /\ last_return' = last_return]_vars

\* CONTINUE was chosen in a pause menu whose confirmation never ran: the
\* pause menu has quit and the game state is TIMER
C14_Witness ==
    /\ stack = <<"pause">>
    /\ last_selected_option["pause"] = "CONTINUE"
    /\ ~is_running["pause"]
    /\ game_state = "TIMER"
    /\ last_return.menu = "none"

\* C15: in DifficultyMenu, EASY / MEDIUM / HARD set the shared difficulty to
\* the matching value and quit the menu; BACK quits the menu and leaves the
\* shared difficulty unchanged.
C15_DifficultyChosenOrKept ==
    [][/\ \A option \in {"EASY", "MEDIUM", "HARD"} :
              Acting("difficulty", option) =>
                  /\ difficulty' = option
                  /\ ~is_running'["difficulty"]
       /\ Acting("difficulty", "BACK") =>
              /\ difficulty' = difficulty
              /\ ~is_running'["difficulty"]
       /\ difficulty' # difficulty =>
              /\ stack # <<>>
              /\ Top = "difficulty"
              /\ selected_option["difficulty"] \in {"EASY", "MEDIUM", "HARD"}]_vars

\* the difficulty menu returned BACK in a run that followed one in which
\* HARD was chosen, and the difficulty is still HARD
C15_Witness ==
    /\ last_return = [menu |-> "difficulty", value |-> "BACK",
                      quit_option |-> "BACK"]
    /\ difficulty = "HARD"
    /\ stack = <<>>

\* C16: whatever sequence of set_current_coordinate, set_current_coordinate_x
\* and set_current_coordinate_y calls is made, every secondary rectangle has
\* moved since it was bound exactly as far as the main rectangle has, in x
\* and in y, so its offset from the main rectangle is the one it was bound
\* with.
C16_SecondariesKeepTheirOffset ==
    /\ Len(anim_secondary) = Len(anim_bound_secondary)
    /\ \A i \in 1..Len(anim_secondary) :
        /\ anim_secondary[i][1] - anim_bound_secondary[i][1]
             = anim_main[1] - anim_bound_main[1]
        /\ anim_secondary[i][2] - anim_bound_secondary[i][2]
             = anim_main[2] - anim_bound_main[2]

\* two secondary rectangles bound at different places have followed the main
\* rectangle away from where it was bound, in x and in y
C16_Witness ==
    /\ Len(anim_secondary) >= 2
    /\ anim_bound_secondary[1] # anim_bound_secondary[2]
    /\ anim_main[1] # anim_bound_main[1]
    /\ anim_main[2] # anim_bound_main[2]
    /\ anim_secondary[1] # anim_bound_secondary[1]

\* distance of the main rectangle from the origin along x
SwingDistance ==
    IF anim_main[1] >= anim_origin[1]
    THEN anim_main[1] - anim_origin[1]
    ELSE anim_origin[1] - anim_main[1]

\* C17: in every state reached by animate() calls after a bind or a reload,
\* the main rectangle's x is within the swing range of the origin x:
\* |x - origin x| <= L, with L = int(0.05 * main width).
C17_SwingStaysInRange == SwingDistance <= swing_limit

\* C18: starting at the origin right after a bind, after exactly
\* 2 * floor(L / 2) animate() calls the main rectangle's x is within one step
\* (2 px) of the origin x.
C18_BackNearOriginAfterPeriod ==
    swing_calls = 2 * (swing_limit \div 2) => SwingDistance <= STEP_SIZE

\* C19: the volume is always an integer in 0..10. VOLUME_UP of the options
\* menu at volume 10 and VOLUME_DOWN at volume 0 leave it unchanged, in every
\* other state they change it by exactly 1, and no other step changes it.
C19_VolumeClampedStepsOfOne ==
    [][/\ volume \in 0..10
       /\ volume' \in 0..10
       /\ Acting("options", "VOLUME_UP") =>
            volume' = (IF volume = 10 THEN 10 ELSE volume + 1)
       /\ Acting("options", "VOLUME_DOWN") =>
            volume' = (IF volume = 0 THEN 0 ELSE volume - 1)
       /\ ~(\E option \in {"VOLUME_UP", "VOLUME_DOWN"} :
                Acting("options", option)) => volume' = volume]_vars

\* VOLUME_UP has brought the volume to 10 and is chosen once more
C19_Witness ==
    /\ Acting("options", "VOLUME_UP")
    /\ last_selected_option["options"] = "VOLUME_UP"
    /\ volume = 10

\* C20: right after reset_record(), get_record() returns 0, whatever
\* set_record calls were made before the reset; likewise get_score() returns 0
\* right after reset_score().
C20_ResetThenGetIsZero ==
    /\ manager_call = "reset_record" => GetRecord = 0
    /\ manager_call = "reset_score" => GetScore = 0

\* reset_record() was the last call, made while the file held a record that
\* an earlier set_record had raised above the one read at construction
C20_Witness ==
    /\ manager_call = "reset_record"
    /\ manager_before > record_cache
    /\ GetRecord = 0

\* C21: in every reachable state of a Background exactly one visual
\* representation is active: the active background is an (image, rect) pair
\* iff the image list is non-empty and the colour rectangle otherwise, and
\* draw() renders one of the two, never both.
C21_ImagePairIffImageList ==
    /\ bg_kind \in {"RECT", "IMAGE"}
    /\ bg_kind = "IMAGE" <=> bg_images > 0
    /\ Cardinality(bg_drawn) <= 1

\* C22: a Menu constructed with a button alignment outside {1, 2, 3} raises
\* ValueError as the first thing its construction does: no button has been
\* created or aligned, nothing is drawn, and the construction never completes.
C22_InvalidAlignmentFailsFast ==
    [][ctor_alignment \notin {1, 2, 3} =>
            /\ ctor_stage = "CALLED"
            /\ ctor_stage' = "RAISED"
            /\ ctor_created' = 0
            /\ ctor_tops' = <<>>]_vars

\* the constructor was called with alignment 0 and has raised
C22_Witness ==
    /\ ctor_alignment = 0
    /\ ctor_buttons # <<>>
    /\ ctor_stage = "RAISED"
    /\ ctor_created = 0
    /\ ctor_tops = <<>>

\* C24: in a TOP-aligned menu with n buttons the first button's top edge is
\* background top + int(0.15 * background height), and every later button's
\* top edge is the previous button's bottom edge (the bottom of its bottom
\* shape) + gap, with gap = floor(int(0.1 * sum of button heights) / n).
C24_TopAlignedRows ==
    (ctor_alignment = TOP_ALIGNMENT /\ ctor_tops # <<>>) =>
        LET n == Len(ctor_tops)
            gap == ((n * ctor_size) \div 10) \div n
            bottom_edge(i) == ctor_tops[i] + ctor_size + ctor_size \div 10
        IN  /\ n = Len(ctor_buttons)
            /\ ctor_tops[1] =
                 ctor_background[1] + (ctor_background[2] * 15) \div 100
            /\ \A i \in 2..n : ctor_tops[i] = bottom_edge(i - 1) + gap

\* three buttons were aligned on top in a background 300 high: the first
\* top edge is 45 below the background's, and the gap is not the undivided
\* tenth of the heights
C24_Witness ==
    /\ ctor_alignment = TOP_ALIGNMENT
    /\ ctor_stage = "DONE"
    /\ Len(ctor_tops) = 3
    /\ ctor_background = <<0, 300>>
    /\ ctor_tops[1] = 45
    /\ ctor_size = 26
    /\ ctor_tops[2] = 45 + 26 + 2 + 2

\* C23: the selector is next to a button iff the y of the selector's centre
\* lies strictly between the top edge and the bottom edge of the button's top
\* shape; a y on either edge is not next to it. Only that y is consulted.
C23_NextToIffStrictlyBetween ==
    LET top == btn_coordinate[2]
        bottom == btn_coordinate[2] + btn_size
    IN  /\ btn_accent = "accent" <=>
                (top < btn_args.y /\ btn_args.y < bottom)
        /\ btn_result = BtnOption <=>
                (top < btn_args.y /\ btn_args.y < bottom /\ btn_args.is_clicking)

\* events() was called with select pressed and the selector's centre on the
\* bottom edge of a button that has rows strictly inside: not next to it
C23_Witness ==
    /\ btn_size > 1
    /\ btn_args.y = btn_coordinate[2] + btn_size
    /\ btn_args.is_clicking
    /\ btn_accent = "secondary"
    /\ btn_result = "NONE"

\* C25: whenever a menu's selected option becomes non-NONE, it is the option
\* of the button at the menu's focus index, also in the first tick of a
\* start() that follows a reset.
C25_SelectedOptionIsTheFocusedButton ==
    [][\A m \in Menus :
          (selected_option[m] = "NONE" /\ selected_option'[m] # "NONE") =>
              selected_option'[m] = Buttons(m)[current_button'[m] + 1]]_vars

\* the menu on top of the call stack is in an ACTING iteration
ActingNow ==
    /\ window_open
    /\ stack # <<>>
    /\ is_running[Top]
    /\ selected_option[Top] # "NONE"

\* the main menu's option opens a child menu other than the one this
\* behaviour visits
OtherChildChosen ==
    /\ Top = "main"
    /\ \E pair \in {<<"OPTIONS", "options">>, <<"RECORD", "record">>,
                     <<"CREDITS", "credits">>} :
            selected_option["main"] = pair[1] /\ pair[2] # main_child

\* C27: no menu stays ACTING: every option of one of the menu's own buttons
\* is handled by run_another_action, and the call ends with quit() called,
\* with the selected option reset to NONE or with the process ended; while
\* it runs a child menu the call ends that way when the child returns.
C27_ActingAlwaysEnds ==
    /\ [](ActingNow /\ ~OtherChildChosen => ENABLED <<NextMenu>>_vars)
    /\ [][ActingNow =>
            LET m == Top
            IN  \/ ~is_running'[m]
                \/ selected_option'[m] = "NONE"
                \/ ~window_open'
                \/ /\ Len(stack') = Len(stack) + 1
                   /\ Caller(stack'[Len(stack')]) = m]_vars
    /\ [][(stack # <<>> /\ ~is_running[Top] /\ Len(stack) > 1) =>
            LET caller == stack[Len(stack) - 1]
            IN  /\ stack' = SubSeq(stack, 1, Len(stack) - 1)
                /\ \/ ~is_running'[caller]
                   \/ selected_option'[caller] = "NONE"]_vars

\* QUIT was chosen in the main menu: the process has ended with the main
\* menu still running and QUIT still selected
C27_Witness ==
    /\ ~window_open
    /\ stack = <<"main">>
    /\ is_running["main"]
    /\ selected_option["main"] = "QUIT"

\* C29: the focus index changes, and the scroll sound plays, only in a tick
\* whose event queue holds a key-down of the up or the down key: a tick that
\* brings only other events (a key-down of another key, a key-up, a timer)
\* leaves the focus where it was and plays nothing, even while up or down is
\* held.
C29_FocusMovesOnlyOnArrowKeydown ==
    [][(IdleIteration /\ tick_arrow_keydowns' = 0) =>
          /\ current_button'[Top] = current_button[Top]
          /\ scroll_plays' = 0]_vars

\* C30: while the select key is held, no key event moves the focus or plays
\* the scroll sound: in a tick that polls select as held the focus index
\* stays where it was and the scroll sound is not played, whatever the event
\* queue holds and whether up or down is held too.
\* A tick that selects an option is such a tick: it neither moves the focus
\* nor plays the scroll sound.
C30_SelectHeldBlocksNavigation ==
    [][(IdleIteration
            /\ ("select" \in tick_keys' \/ selected_option'[Top] # "NONE")) =>
          /\ current_button'[Top] = current_button[Top]
          /\ scroll_plays' = 0]_vars

\* a tick polled select and down as held and handled a key-down of up or
\* down; it played no scroll sound and selected the focused first button
C30_Witness ==
    /\ stack # <<>>
    /\ {"select", "down"} \subseteq tick_keys
    /\ tick_arrow_keydowns >= 1
    /\ scroll_plays = 0
    /\ current_button[Top] = 0
    /\ selected_option[Top] = Buttons(Top)[1]

\* C26: an option is selected only on a fresh press of select. A tick that
\* polls select as held when the tick before it (of this menu or of the menu
\* that opened it) polled it as held too, and whose event queue holds no
\* key-down, belongs to the same continuous hold: it selects no option.
C26_OnlyAFreshPressSelects ==
    [][(IdleIteration /\ select_held /\ "select" \in tick_keys'
            /\ tick_keydowns' = 0) =>
          selected_option'[Top] = "NONE"]_vars

C31_ResetKeepsTheCentre ==
    [][ResetImageLoop => bg_center' = bg_center]_vars

\* C32: after reset_record(), a following set_record(v) with v > 0 stores v,
\* also when v is not greater than the record the manager read when it was
\* constructed: the comparison is made against the value stored now.
\* Likewise for reset_score() and set_score(v).
C32_SetAfterResetStores ==
    [][\A v \in 1..MaxRecord :
          /\ (manager_call = "reset_record" /\ SetRecord(v)) =>
                record_file' = v
          /\ (manager_call = "reset_score" /\ SetScore(v)) =>
                score_file' = v]_vars

\* C33: over any sequence of Click.animate calls with no reload in between,
\* whenever the click stage is RUNNING the top-left of the main rectangle is
\* the coordinate of the bottom shape, and whenever it is NONE or FINISHED it
\* is the origin coordinate; every follower rectangle is displaced from the
\* position it was bound at by the displacement of the main rectangle (each
\* call moves every follower by what it moves the main rectangle).
C33_MainFollowsTheStage ==
    /\ [](IF click_stage = "RUNNING" THEN click_main = click_bottom
          ELSE click_main = click_origin)
    /\ [][/\ Len(click_secondary') = Len(click_secondary)
          /\ \A i \in DOMAIN click_secondary : \A k \in 1..2 :
                click_secondary'[i][k] - click_secondary[i][k] =
                    click_main'[k] - click_main[k]]_vars

\* a click ran and ended on a button whose bottom shape is not at the origin
\* and that has a follower: the stage is FINISHED, the main rectangle is back
C33_Witness ==
    /\ click_stage = "FINISHED"
    /\ click_before = "RUNNING"
    /\ click_bottom # click_origin
    /\ click_secondary # <<>>
    /\ click_main = click_origin

\* C34: after reload_animation(R, F), any sequence of set_current_coordinate
\* calls followed by restore_origin_coordinate() leaves the main rectangle
\* where it was at the reload and every secondary rectangle where it was at
\* the reload; the origin coordinate is changed only by a reload, never by
\* moving or restoring.
C34_RestoreReturnsToTheReload ==
    /\ [](anim_call.name = "restore" =>
            /\ anim_main = anim_bound_main
            /\ anim_secondary = anim_bound_secondary)
    /\ [][anim_origin' # anim_origin => anim_call'.name = "reload"]_vars

\* after a reload, restore_origin_coordinate() was called with the main
\* rectangle moved away in x and in y: it and its two followers are back
C34_Witness ==
    /\ anim_call.name = "restore"
    /\ swing_calls = -1
    /\ anim_call.from[1] # anim_bound_main[1]
    /\ anim_call.from[2] # anim_bound_main[2]
    /\ Len(anim_bound_secondary) = 2
    /\ anim_main = anim_bound_main
    /\ anim_secondary = anim_bound_secondary

\* C35: after every structural mutator of an AnimatedText (content, size,
\* font, coordinate or position, centre, size keeping the centre) the swing
\* animation is bound to the rectangle the text draws now and its origin is
\* the top-left of that rectangle; the animation never moves a rectangle the
\* text no longer draws.
C35_SwingBoundToTheDrawnRectangle ==
    /\ txt_swing_same
    /\ txt_call = "mutator" =>
          /\ txt_swing_origin = txt_rect
          /\ txt_swing_main = txt_rect

\* the font after the given one in a list of so many fonts, the first after
\* the last
FontFollowing(fonts, font) == (font + 1) % fonts

\* C36: on every font-timer event AnimatedFont.animate switches the text to
\* the font that follows the displayed one in the list (the first after the
\* last), from the very first tick on, and leaves the centre of the text
\* where it is; an event of any other type changes neither the font nor the
\* index.
C36_EveryTickShowsTheFollowingFont ==
    [][/\ txt_call' = "font_event" =>
              /\ txt_font' = FontFollowing(txt_fonts, txt_font)
              /\ TextCenter' = TextCenter
       /\ txt_call' = "other_event" =>
              UNCHANGED <<txt_font, txt_font_index>>]_vars

\* C37: the current image index of a Background is always a valid index of
\* its image list: after any sequence of image-timer events (the index
\* advances by one and wraps to 0 after the last image), change_image_list
\* calls (also with a list shorter than the one before) and reset_image_loop
\* calls, 0 <= index < number of images whenever the list is not empty.
C37_ImageIndexIsValid ==
    bg_images > 0 => (0 <= bg_current /\ bg_current < bg_images)

C39_TimerCountsDownAndReturns ==
    /\ [](/\ gs_pc = "TIMER" => tm_events < tm_seconds + 1
          /\ gs_pc = "LOOP" => tm_aux = tm_seconds
          /\ tm_sounds <= tm_seconds)
    /\ [][gs_pc = "TIMER" =>
             /\ gs_pc' = "LOOP" <=> tm_events' >= tm_seconds + 1
             /\ gs_pc' = "LOOP" =>
                   /\ tm_sounds' = tm_seconds
                   /\ tm_aux' = tm_seconds
                   /\ tm_content' = tm_seconds]_vars
    /\ (gs_pc = "TIMER") ~> (gs_pc = "LOOP")

\* a Timer of more than one second has returned after exactly N + 1 timer
\* events and N tick sounds
C39_Witness ==
    /\ gs_pc = "LOOP"
    /\ gs_screen = "TIMER"
    /\ tm_seconds > 1
    /\ tm_events = tm_seconds + 1
    /\ tm_sounds = tm_seconds
    /\ tm_aux = tm_seconds

====
